---- MODULE Spec2Model ----
(***************************************************************************)
(* A model of the pip-boy input subsystem: the fixed-layout codec of the  *)
(* combined input state (common/src/input*.rs), the aggregation cycle and  *)
(* the served-side bus responder of the main input module                  *)
(* (main-input/src/main.rs, main-input/src/lib.rs).                        *)
(*                                                                         *)
(* Buffers are sequences of bytes: Rust's buffer[i] is buffer[i + 1] here. *)
(***************************************************************************)
EXTENDS Integers, Sequences, FiniteSets, TLC

\* ------------------------------------------------------------------------
\* Bytes and bits
\* ------------------------------------------------------------------------

\* `flag as u8`
B(flag) == IF flag THEN 1 ELSE 0

\* `byte & (1 << k) != 0`
TestBit(byte, k) == (byte \div (2 ^ k)) % 2 = 1

\* `[0u8; n]`
Zeroes(n) == [i \in 1..n |-> 0]

\* `[v; n]`
Filled(n, v) == [i \in 1..n |-> v]

\* A faulty variant of to_le_bytes: the high byte first.
to_le_bytes_high_first(v) == <<(v \div 256) % 256, v % 256>>

\* `u16::to_le_bytes`
to_le_bytes(v) == <<v % 256, (v \div 256) % 256>>

\* A faulty variant of from_le_bytes: the high byte first.
from_le_bytes_high_first(bytes) == bytes[2] + 256 * bytes[1]

\* `u16::from_le_bytes`
from_le_bytes(bytes) == bytes[1] + 256 * bytes[2]

\* Result<(), PackingError> of a pack: the error flag and the destination as
\* the call leaves it.
PackOk(buffer) == [err |-> FALSE, buffer |-> buffer]
PackErr(buffer) == [err |-> TRUE, buffer |-> buffer]

\* Result<Self, PackingError> of an unpack.
UnpackOk(value) == [err |-> FALSE, value |-> value]
UnpackErr == [err |-> TRUE]

\* `dst[lo..hi].copy_from_slice(src)` (Rust's half-open range lo..hi)
CopyInto(dst, lo, src) ==
  [i \in 1..Len(dst) |->
     IF i > lo /\ i <= lo + Len(src) THEN src[i - lo] ELSE dst[i]]

\* ------------------------------------------------------------------------
\* Numpad (common/src/input/numpad.rs)
\* ------------------------------------------------------------------------

NumpadFields ==
  {"zero", "one", "two", "three", "four", "five", "six", "seven", "eight",
   "nine"}

Numpad_default == [f \in NumpadFields |-> FALSE]

\* A faulty variant of Numpad_pack: nine is put one bit too low.
Numpad_pack_nine_low(self, buffer) ==
  IF Len(buffer) < 2 THEN PackErr(buffer)
  ELSE PackOk([buffer EXCEPT
         ![1] = B(self.zero) * 128 + B(self.one) * 64 + B(self.two) * 32
                + B(self.three) * 16 + B(self.four) * 8 + B(self.five) * 4
                + B(self.six) * 2 + B(self.seven),
         ![2] = B(self.eight) * 128 + B(self.nine) * 32])

Numpad_pack(self, buffer) ==
  IF Len(buffer) < 2 THEN PackErr(buffer)
  ELSE PackOk([buffer EXCEPT
         ![1] = B(self.zero) * 128 + B(self.one) * 64 + B(self.two) * 32
                + B(self.three) * 16 + B(self.four) * 8 + B(self.five) * 4
                + B(self.six) * 2 + B(self.seven),
         ![2] = B(self.eight) * 128 + B(self.nine) * 64])

Numpad_unpack(buffer) ==
  IF Len(buffer) < 2 THEN UnpackErr
  ELSE UnpackOk(
    [zero |-> TestBit(buffer[1], 7), one |-> TestBit(buffer[1], 6),
     two |-> TestBit(buffer[1], 5), three |-> TestBit(buffer[1], 4),
     four |-> TestBit(buffer[1], 3), five |-> TestBit(buffer[1], 2),
     six |-> TestBit(buffer[1], 1), seven |-> TestBit(buffer[1], 0),
     eight |-> TestBit(buffer[2], 7), nine |-> TestBit(buffer[2], 6)])

\* A faulty variant of Numpad_bitor: nine is taken from the left operand
\* alone.
Numpad_bitor_nine_of_self(self, rhs) == [f \in NumpadFields |-> IF f = "nine" THEN self[f] ELSE self[f] \/ rhs[f]]

\* `impl BitOr for Numpad`: every flag is `self.f || rhs.f`.
Numpad_bitor(self, rhs) == [f \in NumpadFields |-> self[f] \/ rhs[f]]

\* ------------------------------------------------------------------------
\* Keypad (common/src/input/keypad.rs)
\* ------------------------------------------------------------------------

KeypadFields ==
  {"shift", "enter", "backspace", "a", "b", "c", "d", "e", "f", "g", "h",
   "i", "j", "k", "l", "m", "n", "o", "p", "q", "r", "s", "t", "u", "v",
   "w", "x", "y", "z"}

Keypad_default == [f \in KeypadFields |-> FALSE]

Keypad_pack(self, buffer) ==
  IF Len(buffer) < 4 THEN PackErr(buffer)
  ELSE PackOk([buffer EXCEPT
         ![1] = B(self.shift) * 128 + B(self.a) * 64 + B(self.b) * 32
                + B(self.c) * 16 + B(self.d) * 8 + B(self.e) * 4
                + B(self.f) * 2 + B(self.g),
         ![2] = B(self.h) * 128 + B(self.i) * 64 + B(self.j) * 32
                + B(self.k) * 16 + B(self.l) * 8 + B(self.m) * 4
                + B(self.n) * 2 + B(self.o),
         ![3] = B(self.p) * 128 + B(self.q) * 64 + B(self.r) * 32
                + B(self.s) * 16 + B(self.t) * 8 + B(self.u) * 4
                + B(self.v) * 2 + B(self.w),
         ![4] = B(self.x) * 128 + B(self.y) * 64 + B(self.z) * 32
                + B(self.enter) * 16 + B(self.backspace) * 8])

Keypad_unpack(buffer) ==
  IF Len(buffer) < 4 THEN UnpackErr
  ELSE UnpackOk(
    [shift |-> TestBit(buffer[1], 7), a |-> TestBit(buffer[1], 6),
     b |-> TestBit(buffer[1], 5), c |-> TestBit(buffer[1], 4),
     d |-> TestBit(buffer[1], 3), e |-> TestBit(buffer[1], 2),
     f |-> TestBit(buffer[1], 1), g |-> TestBit(buffer[1], 0),
     h |-> TestBit(buffer[2], 7), i |-> TestBit(buffer[2], 6),
     j |-> TestBit(buffer[2], 5), k |-> TestBit(buffer[2], 4),
     l |-> TestBit(buffer[2], 3), m |-> TestBit(buffer[2], 2),
     n |-> TestBit(buffer[2], 1), o |-> TestBit(buffer[2], 0),
     p |-> TestBit(buffer[3], 7), q |-> TestBit(buffer[3], 6),
     r |-> TestBit(buffer[3], 5), s |-> TestBit(buffer[3], 4),
     t |-> TestBit(buffer[3], 3), u |-> TestBit(buffer[3], 2),
     v |-> TestBit(buffer[3], 1), w |-> TestBit(buffer[3], 0),
     x |-> TestBit(buffer[4], 7), y |-> TestBit(buffer[4], 6),
     z |-> TestBit(buffer[4], 5), enter |-> TestBit(buffer[4], 4),
     backspace |-> TestBit(buffer[4], 3)])

\* The letters b..s are OR-ed against self.a, as the source has it.
Keypad_bitor(self, rhs) ==
  [shift |-> self.shift \/ rhs.shift,
   a |-> self.a \/ rhs.a, b |-> self.a \/ rhs.b, c |-> self.a \/ rhs.c,
   d |-> self.a \/ rhs.d, e |-> self.a \/ rhs.e, f |-> self.a \/ rhs.f,
   g |-> self.a \/ rhs.g, h |-> self.a \/ rhs.h, i |-> self.a \/ rhs.i,
   j |-> self.a \/ rhs.j, k |-> self.a \/ rhs.k, l |-> self.a \/ rhs.l,
   m |-> self.a \/ rhs.m, n |-> self.a \/ rhs.n, o |-> self.a \/ rhs.o,
   p |-> self.a \/ rhs.p, q |-> self.a \/ rhs.q, r |-> self.a \/ rhs.r,
   s |-> self.a \/ rhs.s,
   t |-> self.t \/ rhs.t, u |-> self.u \/ rhs.u, v |-> self.v \/ rhs.v,
   w |-> self.w \/ rhs.w, x |-> self.x \/ rhs.x, y |-> self.y \/ rhs.y,
   z |-> self.z \/ rhs.z,
   enter |-> self.enter \/ rhs.enter,
   backspace |-> self.backspace \/ rhs.backspace]

\* ------------------------------------------------------------------------
\* Auxiliary (common/src/input/auxiliary.rs)
\* ------------------------------------------------------------------------

AuxiliaryFields ==
  {"exclamation", "at", "hash", "dollar", "percent", "caret", "and", "star",
   "left_paren", "right_paren", "minus", "underscore", "plus", "equal",
   "backtick", "tilde", "left_square", "right_square", "left_curly",
   "right_curly", "backslash", "pipe", "semicolon", "colon", "single_quote",
   "double_quote", "comma", "period", "less_than", "greater_than",
   "forwardslash", "question"}

Auxiliary_default == [f \in AuxiliaryFields |-> FALSE]

Auxiliary_pack(self, buffer) ==
  IF Len(buffer) < 4 THEN PackErr(buffer)
  ELSE PackOk([buffer EXCEPT
         ![1] = B(self.exclamation) * 128 + B(self.at) * 64
                + B(self.hash) * 32 + B(self.dollar) * 16
                + B(self.percent) * 8 + B(self.caret) * 4
                + B(self.and) * 2 + B(self.star),
         ![2] = B(self.left_paren) * 128 + B(self.right_paren) * 64
                + B(self.minus) * 32 + B(self.underscore) * 16
                + B(self.plus) * 8 + B(self.equal) * 4
                + B(self.backtick) * 2 + B(self.tilde),
         ![3] = B(self.left_square) * 128 + B(self.right_square) * 64
                + B(self.left_curly) * 32 + B(self.right_curly) * 16
                + B(self.backslash) * 8 + B(self.pipe) * 4
                + B(self.semicolon) * 2 + B(self.colon),
         ![4] = B(self.single_quote) * 128 + B(self.double_quote) * 64
                + B(self.comma) * 32 + B(self.period) * 16
                + B(self.less_than) * 8 + B(self.greater_than) * 4
                + B(self.forwardslash) * 2 + B(self.question)])

Auxiliary_unpack(buffer) ==
  IF Len(buffer) < 4 THEN UnpackErr
  ELSE UnpackOk(
    [exclamation |-> TestBit(buffer[1], 7), at |-> TestBit(buffer[1], 6),
     hash |-> TestBit(buffer[1], 5), dollar |-> TestBit(buffer[1], 4),
     percent |-> TestBit(buffer[1], 3), caret |-> TestBit(buffer[1], 2),
     and |-> TestBit(buffer[1], 1), star |-> TestBit(buffer[1], 0),
     left_paren |-> TestBit(buffer[2], 7),
     right_paren |-> TestBit(buffer[2], 6),
     minus |-> TestBit(buffer[2], 5), underscore |-> TestBit(buffer[2], 4),
     plus |-> TestBit(buffer[2], 3), equal |-> TestBit(buffer[2], 2),
     backtick |-> TestBit(buffer[2], 1), tilde |-> TestBit(buffer[2], 0),
     left_square |-> TestBit(buffer[3], 7),
     right_square |-> TestBit(buffer[3], 6),
     left_curly |-> TestBit(buffer[3], 5),
     right_curly |-> TestBit(buffer[3], 4),
     backslash |-> TestBit(buffer[3], 3), pipe |-> TestBit(buffer[3], 2),
     semicolon |-> TestBit(buffer[3], 1), colon |-> TestBit(buffer[3], 0),
     single_quote |-> TestBit(buffer[4], 7),
     double_quote |-> TestBit(buffer[4], 6),
     comma |-> TestBit(buffer[4], 5), period |-> TestBit(buffer[4], 4),
     less_than |-> TestBit(buffer[4], 3),
     greater_than |-> TestBit(buffer[4], 2),
     forwardslash |-> TestBit(buffer[4], 1),
     question |-> TestBit(buffer[4], 0)])

Auxiliary_bitor(self, rhs) == [f \in AuxiliaryFields |-> self[f] \/ rhs[f]]

\* ------------------------------------------------------------------------
\* AnalogInputs (common/src/input/analog.rs)
\* ------------------------------------------------------------------------

AnalogInputs_default == [a0 |-> 0, a1 |-> 0, a2 |-> 0, a3 |-> 0, a4 |-> 0, a5 |-> 0]

AnalogInputs_pack(self, buffer) ==
  IF Len(buffer) < 12 THEN PackErr(buffer)
  ELSE PackOk(
    CopyInto(CopyInto(CopyInto(CopyInto(CopyInto(CopyInto(buffer,
      0, to_le_bytes(self.a0)), 2, to_le_bytes(self.a1)),
      4, to_le_bytes(self.a2)), 6, to_le_bytes(self.a3)),
      8, to_le_bytes(self.a4)), 10, to_le_bytes(self.a5)))

AnalogInputs_unpack(buffer) ==
  IF Len(buffer) < 12 THEN UnpackErr
  ELSE UnpackOk(
    [a0 |-> from_le_bytes(SubSeq(buffer, 1, 2)),
     a1 |-> from_le_bytes(SubSeq(buffer, 3, 4)),
     a2 |-> from_le_bytes(SubSeq(buffer, 5, 6)),
     a3 |-> from_le_bytes(SubSeq(buffer, 7, 8)),
     a4 |-> from_le_bytes(SubSeq(buffer, 9, 10)),
     a5 |-> from_le_bytes(SubSeq(buffer, 11, 12))])

\* ------------------------------------------------------------------------
\* Input (common/src/input.rs)
\* ------------------------------------------------------------------------

Input_default ==
  [numpad |-> Numpad_default, keypad |-> Keypad_default,
   auxiliary |-> Auxiliary_default, analog |-> AnalogInputs_default,
   other_input_one |-> Zeroes(24), other_input_two |-> Zeroes(24)]

\* The sub-views pack into the slices buffer[0..2], [2..6], [6..10], [10..22];
\* the other-payloads are copied to [22..46] and [46..70]; buffer[70] and
\* everything after it is not written.
\* A faulty variant of Input_pack: the length is checked against the 70
\* bytes that are written.
Input_pack_checks_70(self, buffer) ==
  IF Len(buffer) < 70 THEN PackErr(buffer)
  ELSE
    LET np == Numpad_pack(self.numpad, SubSeq(buffer, 1, 2))
        kp == Keypad_pack(self.keypad, SubSeq(buffer, 3, 6))
        ax == Auxiliary_pack(self.auxiliary, SubSeq(buffer, 7, 10))
        an == AnalogInputs_pack(self.analog, SubSeq(buffer, 11, 22))
    IN  PackOk(
          CopyInto(CopyInto(CopyInto(CopyInto(CopyInto(CopyInto(buffer,
            0, np.buffer), 2, kp.buffer), 6, ax.buffer), 10, an.buffer),
            22, self.other_input_one), 46, self.other_input_two))

Input_pack(self, buffer) ==
  IF Len(buffer) < 71 THEN PackErr(buffer)
  ELSE
    LET np == Numpad_pack(self.numpad, SubSeq(buffer, 1, 2))
        kp == Keypad_pack(self.keypad, SubSeq(buffer, 3, 6))
        ax == Auxiliary_pack(self.auxiliary, SubSeq(buffer, 7, 10))
        an == AnalogInputs_pack(self.analog, SubSeq(buffer, 11, 22))
    IN  PackOk(
          CopyInto(CopyInto(CopyInto(CopyInto(CopyInto(CopyInto(buffer,
            0, np.buffer), 2, kp.buffer), 6, ax.buffer), 10, an.buffer),
            22, self.other_input_one), 46, self.other_input_two))

Input_unpack(buffer) ==
  IF Len(buffer) < 71 THEN UnpackErr
  ELSE UnpackOk(
    [numpad |-> Numpad_unpack(SubSeq(buffer, 1, 2)).value,
     keypad |-> Keypad_unpack(SubSeq(buffer, 3, 6)).value,
     auxiliary |-> Auxiliary_unpack(SubSeq(buffer, 7, 10)).value,
     analog |-> AnalogInputs_unpack(SubSeq(buffer, 11, 22)).value,
     other_input_one |-> SubSeq(buffer, 23, 46),
     other_input_two |-> SubSeq(buffer, 47, 70)])

\* A faulty variant of Input_bitor: the analog channels and the first
\* other-payload are taken from the right operand.
Input_bitor_rhs_payload(self, rhs) ==
  [numpad |-> Numpad_bitor(self.numpad, rhs.numpad),
   keypad |-> Keypad_bitor(self.keypad, rhs.keypad),
   auxiliary |-> Auxiliary_bitor(self.auxiliary, rhs.auxiliary),
   analog |-> rhs.analog,
   other_input_one |-> rhs.other_input_one,
   other_input_two |-> self.other_input_two]

Input_bitor(self, rhs) ==
  [numpad |-> Numpad_bitor(self.numpad, rhs.numpad),
   keypad |-> Keypad_bitor(self.keypad, rhs.keypad),
   auxiliary |-> Auxiliary_bitor(self.auxiliary, rhs.auxiliary),
   analog |-> self.analog,
   other_input_one |-> self.other_input_one,
   other_input_two |-> self.other_input_two]

\* ------------------------------------------------------------------------
\* Multi-tap selection (main-input/src/lib.rs)
\* ------------------------------------------------------------------------

\* Times are in milliseconds.
INPUT_UPDATE_DELAY_MS == 10
SEQUENCE_DELAY_MS == 500

\* Option<T>
None == [some |-> FALSE]
Some(v) == [some |-> TRUE, value |-> v]

\* `*last_click += 1` on a u8, as a build without overflow checks computes it.
add_one_u8(v) == (v + 1) % 256

\* The selected candidates and the counter as the call leaves it.
check_three_input(now, last_time, last_click) ==
  IF last_time.some
  THEN IF now - last_time.value < SEQUENCE_DELAY_MS
       THEN LET click == add_one_u8(last_click)
            IN  [sel |-> IF click % 3 = 0 THEN <<TRUE, FALSE, FALSE>>
                         ELSE IF click % 3 = 1 THEN <<FALSE, TRUE, FALSE>>
                         ELSE <<FALSE, FALSE, TRUE>>,
                 last_click |-> click]
       ELSE [sel |-> <<TRUE, FALSE, FALSE>>, last_click |-> 0]
  ELSE [sel |-> <<TRUE, FALSE, FALSE>>, last_click |-> last_click]

check_four_input(now, last_time, last_click) ==
  IF last_time.some
  THEN IF now - last_time.value < SEQUENCE_DELAY_MS
       THEN LET click == add_one_u8(last_click)
            IN  [sel |-> IF click % 4 = 0 THEN <<TRUE, FALSE, FALSE, FALSE>>
                         ELSE IF click % 4 = 1 THEN <<FALSE, TRUE, FALSE, FALSE>>
                         ELSE IF click % 4 = 2 THEN <<FALSE, FALSE, TRUE, FALSE>>
                         ELSE <<FALSE, FALSE, FALSE, TRUE>>,
                 last_click |-> click]
       ELSE [sel |-> <<TRUE, FALSE, FALSE, FALSE>>, last_click |-> 0]
  ELSE [sel |-> <<TRUE, FALSE, FALSE, FALSE>>, last_click |-> last_click]

\* ------------------------------------------------------------------------
\* update_inputs (main-input/src/main.rs): the local controls
\* ------------------------------------------------------------------------

\* The pins update_inputs reads; a reading is the set of pins that are high.
Pins ==
  {"switch", "b1", "b2", "b3", "b4", "b5", "b6", "b7", "b8", "b9", "bback",
   "b0", "bfront"}

\* The multi-tap buttons, in the order update_inputs handles them.
MultiTapOrder == <<"b2", "b3", "b4", "b5", "b6", "b7", "b8", "b9">>
MultiTap == {MultiTapOrder[i] : i \in 1..Len(MultiTapOrder)}

\* next_input.numpad.<digit> = true
Digit(b) ==
  CASE b = "b2" -> "two" [] b = "b3" -> "three" [] b = "b4" -> "four"
    [] b = "b5" -> "five" [] b = "b6" -> "six" [] b = "b7" -> "seven"
    [] b = "b8" -> "eight" [] b = "b9" -> "nine"

\* The keypad flags the button's check_*_input result is assigned to.
Letters(b) ==
  CASE b = "b2" -> <<"a", "b", "c">> [] b = "b3" -> <<"d", "e", "f">>
    [] b = "b4" -> <<"g", "h", "i">> [] b = "b5" -> <<"j", "k", "l">>
    [] b = "b6" -> <<"m", "n", "o">> [] b = "b7" -> <<"p", "q", "r", "s">>
    [] b = "b8" -> <<"t", "u", "v">> [] b = "b9" -> <<"w", "x", "y", "z">>

\* The counter handed to check_*_input: b3's call passes last_b2_click.
ClickOf(b) == IF b = "b3" THEN "b2" ELSE b

\* b7 and b9 call check_four_input, the others check_three_input.
CheckInput(b, now, last_time, last_click) ==
  IF b \in {"b7", "b9"}
  THEN check_four_input(now, last_time, last_click)
  ELSE check_three_input(now, last_time, last_click)

\* The branch taken when the button is not high: `else if *last_bN_value`
\* for b2..b8, a plain `else` for b9.
ReleaseStamps(b, last_value) == IF b = "b9" THEN TRUE ELSE last_value

\* One button's block of update_inputs. st holds next_input and the task's
\* locals last_bN_value, last_bN_click, last_bN_time.
ButtonBlock(st, b, high, now) ==
  LET r == CheckInput(b, now, st.last_time[b], st.last_click[ClickOf(b)])
      ls == Letters(b)
  IN  IF high
      THEN [next_input |->
              [st.next_input EXCEPT
                 !.numpad[Digit(b)] = TRUE,
                 !.keypad = [f \in KeypadFields |->
                               IF \E i \in 1..Len(ls) : ls[i] = f
                               THEN r.sel[CHOOSE i \in 1..Len(ls) : ls[i] = f]
                               ELSE @[f]]],
            last_click |-> [st.last_click EXCEPT ![ClickOf(b)] = r.last_click],
            last_time |-> [st.last_time EXCEPT ![b] = Some(now)],
            last_value |-> [st.last_value EXCEPT ![b] = TRUE]]
      ELSE [next_input |-> st.next_input,
            last_click |-> st.last_click,
            last_time |-> IF ReleaseStamps(b, st.last_value[b])
                          THEN [st.last_time EXCEPT ![b] = Some(now)]
                          ELSE st.last_time,
            last_value |-> [st.last_value EXCEPT ![b] = FALSE]]

\* The blocks of b2..b9 in source order, from the n-th on.
RECURSIVE ButtonBlocks(_, _, _, _)
ButtonBlocks(st, n, high, now) ==
  IF n > Len(MultiTapOrder) THEN st
  ELSE ButtonBlocks(ButtonBlock(st, MultiTapOrder[n], MultiTapOrder[n] \in high, now),
                    n + 1, high, now)

\* Lines 313-449: the local controls applied to next_input. high is the set
\* of pins whose is_high() is true.
LocalControls(next_input, high, now, last_value, last_click, last_time) ==
  LET s0 == [next_input EXCEPT
               !.keypad.shift = @ \/ ("switch" \in high),
               !.numpad.one = @ \/ ("b1" \in high)]
      st == ButtonBlocks([next_input |-> s0, last_click |-> last_click,
                          last_time |-> last_time, last_value |-> last_value],
                         1, high, now)
  IN  [st EXCEPT
         !.next_input.keypad.backspace = @ \/ ("bback" \in high),
         !.next_input.numpad.zero = @ \/ ("b0" \in high),
         !.next_input.keypad.enter = @ \/ ("bfront" \in high)]

\* ------------------------------------------------------------------------
\* update_inputs: the extensions
\* ------------------------------------------------------------------------

\* A faulty variant of UpdateExtension1: the extension is polled whether or
\* not it is enabled.
UpdateExtension1_unconditional(ext1_on, buffer) == Input_unpack(buffer).value

\* Lines 286-296: extension 1 replaces the default next_input when enabled.
UpdateExtension1(ext1_on, buffer) ==
  IF ext1_on THEN Input_unpack(buffer).value ELSE Input_default

\* A faulty variant of UpdateExtension2: extension 2's channels and
\* other-payloads are copied slot for slot instead of shifted.
UpdateExtension2_unshifted(next_input, ext2_on, buffer) ==
  IF ext2_on
  THEN LET input == Input_unpack(buffer).value
           merged == Input_bitor(next_input, input)
       IN  [merged EXCEPT
              !.analog.a3 = input.analog.a3,
              !.analog.a4 = input.analog.a4,
              !.analog.a5 = input.analog.a5,
              !.other_input_two = input.other_input_two]
  ELSE next_input

\* Lines 298-311: extension 2 is OR-ed in, its channels 0-2 and first
\* other-payload go to the upper bank.
UpdateExtension2(next_input, ext2_on, buffer) ==
  IF ext2_on
  THEN LET input == Input_unpack(buffer).value
           merged == Input_bitor(next_input, input)
       IN  [merged EXCEPT
              !.analog.a3 = input.analog.a0,
              !.analog.a4 = input.analog.a1,
              !.analog.a5 = input.analog.a2,
              !.other_input_two = input.other_input_one]
  ELSE next_input

\* ------------------------------------------------------------------------
\* Decode instructions (common/src/input/other.rs)
\* ------------------------------------------------------------------------

\* enum DataSize, enum DataType
DataSize == {"One", "Two", "Four", "Eight"}
DataType == {"Unsigned", "Signed", "Floating"}

\* `data_size as usize`
SizeOf(data_size) ==
  CASE data_size = "One" -> 1
    [] data_size = "Two" -> 2
    [] data_size = "Four" -> 4
    [] data_size = "Eight" -> 8

\* The bits of each codeword: One 0b1, Two 0b01, Four 0b001, Eight 0b0001;
\* Unsigned 0b1, Signed 0b01, Floating 0b001.
SizeBits(data_size) ==
  CASE data_size = "One" -> 1
    [] data_size = "Two" -> 2
    [] data_size = "Four" -> 3
    [] data_size = "Eight" -> 4

TypeBits(data_type) ==
  CASE data_type = "Unsigned" -> 1
    [] data_type = "Signed" -> 2
    [] data_type = "Floating" -> 3

\* A call that never returns, and one that panics.
Diverges == [err |-> FALSE, diverges |-> TRUE]
Panics == [err |-> FALSE, panics |-> TRUE]
Diverged(result) == "diverges" \in DOMAIN result
Panicked(result) == "panics" \in DOMAIN result
Returned(result) == ~result.err /\ "value" \in DOMAIN result

\* `value.to_le_bytes()[0..3]` of a u32
LowThreeBytes(value) ==
  <<value % 256, (value \div 256) % 256, (value \div 65536) % 256>>

\* `data & (mask << bit_index)`, shifted back: the n bits from bit_index up.
BitsFrom(data, bit_index, n) == (data \div (2 ^ bit_index)) % (2 ^ n)

\* impl Pack for [DataSize; 24], the for loop: `value |= 1 << ...` sets a
\* bit above every bit set so far, so it adds.
RECURSIVE DataSizes_pack_loop(_, _, _, _, _)
DataSizes_pack_loop(self, i, value, bit_index, cumulative_length) ==
  IF i > 24 \/ cumulative_length >= 24 THEN value
  ELSE DataSizes_pack_loop(self, i + 1,
         value + 2 ^ (bit_index + SizeBits(self[i]) - 1),
         bit_index + SizeBits(self[i]),
         cumulative_length + SizeOf(self[i]))

DataSizes_pack(self, buffer) ==
  IF Len(buffer) < 3 THEN PackErr(buffer)
  ELSE PackOk(CopyInto(buffer, 0,
         LowThreeBytes(DataSizes_pack_loop(self, 1, 0, 0, 0))))

\* impl Unpack for [DataSize; 24], the while loop. An iteration in which no
\* branch is taken changes nothing, so the loop never ends; a write at
\* index 24 is out of the array's bounds.
RECURSIVE DataSizes_unpack_loop(_, _, _, _, _)
DataSizes_unpack_loop(data, data_sizes, index, bit_index, cumulative_length) ==
  IF cumulative_length >= 24 THEN UnpackOk(data_sizes)
  ELSE
    LET data_size ==
          CASE BitsFrom(data, bit_index, 4) = 8 -> "Eight"
            [] BitsFrom(data, bit_index, 3) = 4 -> "Four"
            [] BitsFrom(data, bit_index, 2) = 2 -> "Two"
            [] BitsFrom(data, bit_index, 1) = 1 -> "One"
            [] OTHER -> "none"
    IN  IF data_size = "none" THEN Diverges
        ELSE IF index > 23 THEN Panics
        ELSE DataSizes_unpack_loop(data,
               [data_sizes EXCEPT ![index + 1] = data_size],
               index + 1, bit_index + SizeBits(data_size),
               cumulative_length + SizeOf(data_size))

DataSizes_unpack(buffer) ==
  IF Len(buffer) < 3 THEN UnpackErr
  ELSE DataSizes_unpack_loop(
         buffer[1] + 256 * buffer[2] + 65536 * buffer[3],
         [i \in 1..24 |-> "One"], 0, 0, 0)

\* impl Pack for [DataType; 24]
RECURSIVE DataTypes_pack_loop(_, _, _, _)
DataTypes_pack_loop(self, i, value, bit_index) ==
  IF i > 24 \/ bit_index >= 24 THEN value
  ELSE DataTypes_pack_loop(self, i + 1,
         value + 2 ^ (bit_index + TypeBits(self[i]) - 1),
         bit_index + TypeBits(self[i]))

DataTypes_pack(self, buffer) ==
  IF Len(buffer) < 3 THEN PackErr(buffer)
  ELSE PackOk(CopyInto(buffer, 0,
         LowThreeBytes(DataTypes_pack_loop(self, 1, 0, 0))))

\* impl Unpack for [DataType; 24]
RECURSIVE DataTypes_unpack_loop(_, _, _, _)
DataTypes_unpack_loop(data, data_types, data_types_index, bit_index) ==
  IF bit_index >= 24 THEN UnpackOk(data_types)
  ELSE
    LET data_type ==
          CASE BitsFrom(data, bit_index, 3) = 4 -> "Floating"
            [] BitsFrom(data, bit_index, 2) = 2 -> "Signed"
            [] BitsFrom(data, bit_index, 1) = 1 -> "Unsigned"
            [] OTHER -> "none"
    IN  IF data_type = "none" THEN Diverges
        ELSE IF data_types_index > 23 THEN Panics
        ELSE DataTypes_unpack_loop(data,
               [data_types EXCEPT ![data_types_index + 1] = data_type],
               data_types_index + 1, bit_index + TypeBits(data_type))

DataTypes_unpack(buffer) ==
  IF Len(buffer) < 3 THEN UnpackErr
  ELSE DataTypes_unpack_loop(
         buffer[1] + 256 * buffer[2] + 65536 * buffer[3],
         [i \in 1..24 |-> "Unsigned"], 0, 0)

\* impl Default for DecodeInstructions
DecodeInstructions_default ==
  [module_id |-> 0,
   data_sizes |-> [i \in 1..24 |-> "One"],
   data_types |-> [i \in 1..24 |-> "Unsigned"],
   fields |-> [i \in 1..24 |-> Zeroes(10)]]

\* The 240 bytes of the 24 names, one after the other.
RECURSIVE FieldBytes(_, _)
FieldBytes(fields, n) ==
  IF n = 0 THEN <<>> ELSE FieldBytes(fields, n - 1) \o fields[n]

\* impl Pack for DecodeInstructions
DecodeInstructions_pack(self, buffer) ==
  IF Len(buffer) < 248 THEN PackErr(buffer)
  ELSE
    LET sizes == DataSizes_pack(self.data_sizes, SubSeq(buffer, 3, 5))
        types == DataTypes_pack(self.data_types, SubSeq(buffer, 6, 8))
    IN  PackOk(CopyInto(CopyInto(CopyInto(CopyInto(buffer,
          0, to_le_bytes(self.module_id)), 2, sizes.buffer),
          5, types.buffer), 8, FieldBytes(self.fields, 24)))

\* impl Unpack for DecodeInstructions: only 8 bytes are asked for, the
\* slices of the names panic in a buffer shorter than 248.
DecodeInstructions_unpack(buffer) ==
  IF Len(buffer) < 8 THEN UnpackErr
  ELSE
    LET data_sizes == DataSizes_unpack(SubSeq(buffer, 3, 5))
        data_types == DataTypes_unpack(SubSeq(buffer, 6, 8))
    IN  IF Diverged(data_sizes) THEN Diverges
        ELSE IF Panicked(data_sizes) THEN Panics
        ELSE IF Diverged(data_types) THEN Diverges
        ELSE IF Panicked(data_types) THEN Panics
        ELSE IF Len(buffer) < 248 THEN Panics
        ELSE UnpackOk(
          [module_id |-> from_le_bytes(SubSeq(buffer, 1, 2)),
           data_sizes |-> data_sizes.value,
           data_types |-> data_types.value,
           fields |-> [i \in 1..24 |->
                         SubSeq(buffer, 9 + (i - 1) * 10, 8 + i * 10)]])

\* Ok(DecodedInput) and Err(DecodeError)
DecodeOk(value) == [err |-> FALSE, value |-> value]
DecodeErr(error) == [err |-> TRUE, error |-> error]

\* i8::from_le_bytes, i16::from_le_bytes: the two's complement reading of
\* an unsigned value of that many bits.
as_signed(value, bits) ==
  IF value >= 2 ^ (bits - 1) THEN value - 2 ^ bits ELSE value

\* u32/u64/i32/i64/f32/f64::from_le_bytes: the value is kept as its bit
\* pattern in base 256, most significant digit first (it does not fit the
\* checker's integers), so the least significant byte comes last.
from_le_bytes_wide_as_stored(bytes) == bytes

from_le_bytes_wide(bytes) ==
  [j \in 1..Len(bytes) |-> bytes[Len(bytes) + 1 - j]]

\* decode, lines 303-306: the sizes of slots 0..idx-1.
RECURSIVE cumulative_counter(_, _)
cumulative_counter(decode_instructions, idx) ==
  IF idx = 0 THEN 0
  ELSE cumulative_counter(decode_instructions, idx - 1)
         + SizeOf(decode_instructions.data_sizes[idx])

\* decode, lines 312-354: the match on (size, type) of an in-bounds slot.
decode_match(self, idx, decode_instructions, counter) ==
  LET data_size == decode_instructions.data_sizes[idx + 1]
      data_type == decode_instructions.data_types[idx + 1]
      name == decode_instructions.fields[idx + 1]
      bytes == SubSeq(self, counter + 1, counter + SizeOf(data_size))
      Variant(variant, value) ==
        DecodeOk([variant |-> variant, value |-> value, name |-> name])
  IN  CASE data_size = "One" /\ data_type = "Unsigned" ->
             Variant("U8", self[counter + 1])
        [] data_size = "Two" /\ data_type = "Unsigned" ->
             Variant("U16", from_le_bytes(bytes))
        [] data_size = "Four" /\ data_type = "Unsigned" ->
             Variant("U32", from_le_bytes_wide(bytes))
        [] data_size = "Eight" /\ data_type = "Unsigned" ->
             Variant("U64", from_le_bytes_wide(bytes))
        [] data_size = "One" /\ data_type = "Signed" ->
             Variant("I8", as_signed(self[counter + 1], 8))
        [] data_size = "Two" /\ data_type = "Signed" ->
             Variant("I16", as_signed(from_le_bytes(bytes), 16))
        [] data_size = "Four" /\ data_type = "Signed" ->
             Variant("I32", from_le_bytes_wide(bytes))
        [] data_size = "Eight" /\ data_type = "Signed" ->
             Variant("I64", from_le_bytes_wide(bytes))
        [] data_size = "Four" /\ data_type = "Floating" ->
             Variant("F32", from_le_bytes_wide(bytes))
        [] data_size = "Eight" /\ data_type = "Floating" ->
             Variant("F64", from_le_bytes_wide(bytes))
        [] OTHER -> DecodeErr("UnknownDataType")

\* decode with the unsupported pairs rejected ahead of the bound check.
OtherInput_decode_type_first(self, idx, decode_instructions) ==
  IF idx > 23 THEN Panics
  ELSE
    LET counter == cumulative_counter(decode_instructions, idx)
        data_size == decode_instructions.data_sizes[idx + 1]
        data_type == decode_instructions.data_types[idx + 1]
    IN  IF data_size \in {"One", "Two"} /\ data_type = "Floating"
          THEN DecodeErr("UnknownDataType")
        ELSE IF counter + SizeOf(data_size) > 24
          THEN DecodeErr("OutOfBounds")
        ELSE decode_match(self, idx, decode_instructions, counter)

\* impl Decode for OtherInput: data_sizes[idx] is out of the array's bounds
\* for idx above 23.
OtherInput_decode(self, idx, decode_instructions) ==
  IF idx > 23 THEN Panics
  ELSE
    LET counter == cumulative_counter(decode_instructions, idx)
        data_size == decode_instructions.data_sizes[idx + 1]
    IN  IF counter + SizeOf(data_size) > 24
          THEN DecodeErr("OutOfBounds")
        ELSE decode_match(self, idx, decode_instructions, counter)

\* The three types of other.rs with a Pack and an Unpack impl.
TagViews == {"DataSizes", "DataTypes", "DecodeInstructions"}

\* The buffer length pack asks for.
TagSize(view) ==
  CASE view = "DataSizes" -> 3
    [] view = "DataTypes" -> 3
    [] view = "DecodeInstructions" -> 248

TagPack(view, value, buffer) ==
  CASE view = "DataSizes" -> DataSizes_pack(value, buffer)
    [] view = "DataTypes" -> DataTypes_pack(value, buffer)
    [] view = "DecodeInstructions" -> DecodeInstructions_pack(value, buffer)

TagUnpack(view, buffer) ==
  CASE view = "DataSizes" -> DataSizes_unpack(buffer)
    [] view = "DataTypes" -> DataTypes_unpack(buffer)
    [] view = "DecodeInstructions" -> DecodeInstructions_unpack(buffer)

\* ------------------------------------------------------------------------
\* The Pack and Unpack traits (common/src/packing.rs) over the five types
\* ------------------------------------------------------------------------

\* The buffer length below which pack and unpack return InvalidBufferSize.
ViewSize(view) ==
  CASE view = "Input" -> 71
    [] view = "Numpad" -> 2
    [] view = "Keypad" -> 4
    [] view = "Auxiliary" -> 4
    [] view = "AnalogInputs" -> 12

\* `value.pack(&mut buffer)`
ViewPack(view, value, buffer) ==
  CASE view = "Input" -> Input_pack(value, buffer)
    [] view = "Numpad" -> Numpad_pack(value, buffer)
    [] view = "Keypad" -> Keypad_pack(value, buffer)
    [] view = "Auxiliary" -> Auxiliary_pack(value, buffer)
    [] view = "AnalogInputs" -> AnalogInputs_pack(value, buffer)

\* `T::unpack(&buffer)`
ViewUnpack(view, buffer) ==
  CASE view = "Input" -> Input_unpack(buffer)
    [] view = "Numpad" -> Numpad_unpack(buffer)
    [] view = "Keypad" -> Keypad_unpack(buffer)
    [] view = "Auxiliary" -> Auxiliary_unpack(buffer)
    [] view = "AnalogInputs" -> AnalogInputs_unpack(buffer)

\* ------------------------------------------------------------------------
\* InputRequest (common/src/input.rs)
\* ------------------------------------------------------------------------

InputRequest ==
  {"FullInput", "Numpad", "Keypad", "Auxiliary", "Analog", "DecodeOne",
   "OtherOne", "DecodeTwo", "OtherTwo", "SetAddress"}

\* impl From<u8> for InputRequest
InputRequest_from(value) ==
  CASE value = 0 -> "FullInput"
    [] value = 1 -> "Numpad"
    [] value = 2 -> "Keypad"
    [] value = 3 -> "Auxiliary"
    [] value = 4 -> "Analog"
    [] value = 5 -> "DecodeOne"
    [] value = 6 -> "OtherOne"
    [] value = 7 -> "DecodeTwo"
    [] value = 8 -> "OtherTwo"
    [] OTHER -> "SetAddress"

\* ------------------------------------------------------------------------
\* i2c_interrupt (main-input/src/main.rs): the branches of the event match
\* ------------------------------------------------------------------------

\* Bus events as i2c.next() yields them: 0 Start, 1 Restart, 2 transfer
\* read, 3 transfer write, anything else Stop. A Start or Restart carries the
\* instruction byte the handler reads next, a transfer write the byte the
\* SetAddress branch reads.
Start(byte) == [type |-> "Start", byte |-> byte]
Restart(byte) == [type |-> "Restart", byte |-> byte]
TransferRead == [type |-> "Read", byte |-> 0]
TransferWrite(byte) == [type |-> "Write", byte |-> byte]
Stop == [type |-> "Stop", byte |-> 0]

\* Lines 483-489, `0 | 1 =>`: the instruction byte selects the request.
OnStart(byte) == Some(InputRequest_from(byte))

\* A faulty variant of OnRead: the Keypad and Auxiliary arms are exchanged.
OnRead_arms_exchanged(instruction, input, decode_one, decode_two, address) ==
  IF ~instruction.some THEN <<>>
  ELSE CASE instruction.value = "FullInput" -> Input_pack(input, Zeroes(71)).buffer
         [] instruction.value = "Numpad" -> Numpad_pack(input.numpad, Zeroes(2)).buffer
         [] instruction.value = "Keypad" ->
              Auxiliary_pack(input.auxiliary, Zeroes(4)).buffer
         [] instruction.value = "Auxiliary" ->
              Keypad_pack(input.keypad, Zeroes(4)).buffer
         [] instruction.value = "Analog" ->
              AnalogInputs_pack(input.analog, Zeroes(12)).buffer
         [] instruction.value = "DecodeOne" -> decode_one
         [] instruction.value = "OtherOne" -> input.other_input_one
         [] instruction.value = "DecodeTwo" -> decode_two
         [] instruction.value = "OtherTwo" -> input.other_input_two
         [] instruction.value = "SetAddress" -> <<address>>

\* Lines 490-541, `2 =>`: the bytes handed to i2c.write, none when no
\* request is pending.
OnRead(instruction, input, decode_one, decode_two, address) ==
  IF ~instruction.some THEN <<>>
  ELSE CASE instruction.value = "FullInput" -> Input_pack(input, Zeroes(71)).buffer
         [] instruction.value = "Numpad" -> Numpad_pack(input.numpad, Zeroes(2)).buffer
         [] instruction.value = "Keypad" -> Keypad_pack(input.keypad, Zeroes(4)).buffer
         [] instruction.value = "Auxiliary" ->
              Auxiliary_pack(input.auxiliary, Zeroes(4)).buffer
         [] instruction.value = "Analog" ->
              AnalogInputs_pack(input.analog, Zeroes(12)).buffer
         [] instruction.value = "DecodeOne" -> decode_one
         [] instruction.value = "OtherOne" -> input.other_input_one
         [] instruction.value = "DecodeTwo" -> decode_two
         [] instruction.value = "OtherTwo" -> input.other_input_two
         [] instruction.value = "SetAddress" -> <<address>>

\* A faulty variant of OnWrite: the byte is taken as the new address whatever
\* request is pending.
OnWrite_any_request(instruction, byte, address) == byte

\* Lines 542-558, `3 =>`: the address after the event; it changes only under
\* a pending SetAddress.
OnWrite(instruction, byte, address) ==
  IF instruction.some /\ instruction.value = "SetAddress" THEN byte
  ELSE address

\* A faulty variant of OnStop: the pending request survives the Stop.
OnStop_keep(instruction) == instruction

\* Lines 559-563, `_ =>`: Stop clears the pending request.
OnStop(instruction) == None

\* ------------------------------------------------------------------------
\* Bounds and the inputs the model draws from
\* ------------------------------------------------------------------------

\* Aggregation cycles per behaviour.
MaxCycles == 2

\* Two extension states: every flag group, analog bank and other-payload of
\* one differs from the other's and from the default.
SampleInputOne ==
  [numpad |-> [Numpad_default EXCEPT !.one = TRUE, !.eight = TRUE],
   keypad |-> [Keypad_default EXCEPT !.b = TRUE, !.t = TRUE, !.enter = TRUE],
   auxiliary |-> [Auxiliary_default EXCEPT !.at = TRUE, !.question = TRUE],
   analog |-> [a0 |-> 10, a1 |-> 20, a2 |-> 30, a3 |-> 40, a4 |-> 50, a5 |-> 60],
   other_input_one |-> [i \in 1..24 |-> i],
   other_input_two |-> [i \in 1..24 |-> 100 + i]]

SampleInputTwo ==
  [numpad |-> [Numpad_default EXCEPT !.nine = TRUE],
   keypad |-> [Keypad_default EXCEPT !.a = TRUE, !.z = TRUE],
   auxiliary |-> [Auxiliary_default EXCEPT !.exclamation = TRUE, !.pipe = TRUE],
   analog |-> [a0 |-> 4660, a1 |-> 9029, a2 |-> 13398, a3 |-> 17767,
               a4 |-> 22136, a5 |-> 26505],
   other_input_one |-> Filled(24, 255),
   other_input_two |-> [i \in 1..24 |-> 200 + i]]

\* The 71 bytes an extension board answers a FullInput request with.
SampleReplies ==
  {Input_pack(SampleInputOne, Zeroes(71)).buffer,
   Input_pack(SampleInputTwo, Zeroes(71)).buffer}

\* The 248 bytes an extension board clocks out after a decode request, one
\* block per extension; power_interrupt stores them as received.
SampleDecodeOne == [i \in 1..248 |-> i]
SampleDecodeTwo == [i \in 1..248 |-> 255 - i]

\* Readings of the pins: none high, single buttons, two buttons at once,
\* the plain controls, every pin high.
SampleReadings ==
  {{}, {"b2"}, {"b3"}, {"b2", "b3"}, {"b7"}, {"b9"},
   {"switch", "b1", "bback", "b0", "bfront"}, Pins}

\* Time between two reads of Mono::now(): one period, or the whole window.
SampleDelays == {INPUT_UPDATE_DELAY_MS, SEQUENCE_DELAY_MS}

\* Transfer reads the host makes after one Start.
MaxReads == 3

\* Instruction bytes the host sends: every named request, 9, and a byte
\* outside 0..9.
InstructionBytes == 0..9 \cup {200}

\* Addresses the host sends after SetAddress.
WriteBytes == {7, 66}

\* The events the host puts on the bus.
BusEvents ==
  {Start(k) : k \in InstructionBytes} \cup {Restart(0), Restart(9)}
    \cup {TransferWrite(b) : b \in WriteBytes} \cup {TransferRead, Stop}

\* The events of a host that reads the state: in full, one flag group, the
\* analog channels.
SysEvents == {Start(0), Start(2), Start(4), TransferRead, Stop}

\* Pin readings while the bus is served.
SysReadings == {{}, {"b2"}}

\* Buffers unpacked: of the view's size, every byte one of a few patterns
\* (the 71-byte ones: packings of the samples, one pattern throughout, and a
\* sample's packing with the last byte set).
RawBuffers(view) ==
  CASE view = "Numpad" -> [1..2 -> {0, 1, 63, 64, 128, 170, 192, 255}]
    [] view = "Keypad" -> [1..4 -> {0, 7, 8, 255}]
    [] view = "Auxiliary" -> [1..4 -> {0, 1, 128, 255}]
    [] view = "AnalogInputs" ->
         [1..12 -> {0, 255}] \cup {<<52, 18, 0, 0, 0, 0, 0, 0, 0, 0, 18, 52>>}
    [] view = "Input" ->
         {Zeroes(71), Filled(71, 255), Filled(71, 170),
          Input_pack(SampleInputOne, Zeroes(71)).buffer,
          Input_pack(SampleInputTwo, Zeroes(71)).buffer,
          Input_pack(SampleInputOne, Filled(71, 255)).buffer}

\* Flag groups packed: those with at most MaxFlags flags set, and those with
\* at most MaxFlags flags clear.
MaxFlags == 1

RECURSIVE SmallSubsets(_, _)
SmallSubsets(S, n) ==
  IF n = 0 THEN {{}}
  ELSE LET smaller == SmallSubsets(S, n - 1)
       IN  smaller \cup {x \cup {f} : x \in smaller, f \in S}

FlagValues(fields) ==
  {[f \in fields |-> f \in on] : on \in SmallSubsets(fields, MaxFlags)}
    \cup {[f \in fields |-> f \notin off] : off \in SmallSubsets(fields, MaxFlags)}

\* Analog banks packed: every channel at either end of the u16 range, and
\* one channel at a value whose two bytes differ.
AnalogValues ==
  [{"a0", "a1", "a2", "a3", "a4", "a5"} -> {0, 65535}]
    \cup {[AnalogInputs_default EXCEPT ![f] = v] :
            f \in {"a0", "a1", "a2", "a3", "a4", "a5"},
            v \in {1, 255, 256, 4660, 65534}}

\* Whole states packed: each part the default, all set, or a sample's.
InputValues ==
  {[numpad |-> n, keypad |-> k, auxiliary |-> x, analog |-> a,
    other_input_one |-> o1, other_input_two |-> o2] :
     n \in {Numpad_default, [f \in NumpadFields |-> TRUE], SampleInputOne.numpad},
     k \in {Keypad_default, [f \in KeypadFields |-> TRUE], SampleInputOne.keypad},
     x \in {Auxiliary_default, [f \in AuxiliaryFields |-> TRUE],
            SampleInputOne.auxiliary},
     a \in {AnalogInputs_default, SampleInputOne.analog, SampleInputTwo.analog},
     o1 \in {Zeroes(24), Filled(24, 255), SampleInputOne.other_input_one},
     o2 \in {Zeroes(24), Filled(24, 255), SampleInputOne.other_input_two}}

\* The types with a Pack and an Unpack impl that make up the state.
Views == {"Input", "Numpad", "Keypad", "Auxiliary", "AnalogInputs"}

ViewValues(view) ==
  CASE view = "Input" -> InputValues
    [] view = "Numpad" -> FlagValues(NumpadFields)
    [] view = "Keypad" -> FlagValues(KeypadFields)
    [] view = "Auxiliary" -> FlagValues(AuxiliaryFields)
    [] view = "AnalogInputs" -> AnalogValues

\* Destination buffers: of the size the view needs, one byte short or one
\* byte long, zeroed or filled with 0xFF; and the empty buffer.
ViewBuffers(size) ==
  {Zeroes(size), Filled(size, 255), Zeroes(size - 1), Filled(size - 1, 255),
   Zeroes(size + 1), Filled(size + 1, 255), <<>>}

\* ------------------------------------------------------------------------
\* State
\* ------------------------------------------------------------------------

VARIABLES
  input_state,     \* Shared.input_state
  ext1_enabled,    \* Shared.ext1_enabled
  ext2_enabled,    \* Shared.ext2_enabled
  last_value,      \* update_inputs locals last_b2_value .. last_b9_value
  last_click,      \* update_inputs locals last_b2_click .. last_b9_click
  last_time,       \* update_inputs locals last_b2_time .. last_b9_time
  now,             \* the monotonic clock, in ms
  upd_pc,          \* update_inputs: "idle", "lock", "flags", "rest"
  next_input,      \* update_inputs' local next_input
  cycles,          \* completed aggregation cycles
  cycle            \* what the cycle in progress (or the last one) read:
                   \* the extensions' replies (None when not enabled), the
                   \* pins that were high, the flags the local controls set

VARIABLES
  program_i2c,               \* Shared.program_i2c: Some(handle) or None
  I2C_ADDRESS,               \* static mut I2C_ADDRESS
  peripheral_address,        \* the address the I2C block answers to
  ext1_decode_instructions,  \* Shared.ext1_decode_instructions
  ext2_decode_instructions,  \* Shared.ext2_decode_instructions
  instruction,               \* i2c_interrupt's local `instruction`
  i2c_pc,                    \* i2c_interrupt: "idle", "loop", "panicked"
  bus,                       \* the event the I2C block holds for i2c.next()
  last,                      \* the last event the handler matched, what was
                             \* pending and what the address was when it
                             \* did, and the bytes it handed to i2c.write
  reads,                     \* transfer reads matched since the last Start
  after_stop,                \* a Stop was matched, no Start or Restart since
  set_address_trace,         \* how much of Start(9), Write(b), Stop the
                             \* host's latest events spell, and b
  produced                   \* the states update_inputs has fully produced

VARIABLES
  codec_pc,      \* "off", "start", "packed", "unpacked"
  codec_view,    \* the type packed: "Input", "Numpad", ...
  codec_value,   \* the value packed
  codec_buffer,  \* the destination buffer
  codec_before,  \* the buffer as the caller handed it over
  codec_packed,  \* the Result of the pack
  codec_result   \* the Result of the unpack

VARIABLES
  en_ext1,   \* Shared.en_ext1: the level of extension 1's enable line, the
             \* edge its interrupt is enabled for, the edges seen so far
  en_ext2,   \* Shared.en_ext2, likewise
  power_pc,  \* power_interrupt: pc "idle", "ran" or "panicked", and the
             \* levels its latest run read from the two enable lines
  history,   \* per multi-tap button: its reading at the latest tick and at
             \* the one before, the instant of its latest release, and its
             \* counter and timestamp before the latest tick
  absent,    \* when a poll of the running cycle failed: the state the
             \* cycle publishes if the extension polled is absent
  ready      \* the software tasks spawned and not yet finished

aggVars ==
  <<input_state, ext1_enabled, ext2_enabled, last_value, last_click,
    last_time, now, upd_pc, next_input, cycles, cycle>>

i2cState ==
  <<program_i2c, I2C_ADDRESS, peripheral_address, ext1_decode_instructions,
    ext2_decode_instructions, instruction, i2c_pc, bus, last, reads,
    after_stop, set_address_trace>>

i2cVars == <<i2cState, produced>>

codecVars ==
  <<codec_pc, codec_view, codec_value, codec_buffer, codec_before,
    codec_packed, codec_result>>

envVars == <<en_ext1, en_ext2, power_pc, history, absent, ready>>

vars == <<aggVars, i2cVars, codecVars, envVars>>

\* ------------------------------------------------------------------------
\* init (main-input/src/main.rs)
\* ------------------------------------------------------------------------

\* The enabled flags are the levels init reads from the enable lines; the
\* task locals start as declared in update_inputs' #[task(local = [...])].
AggInit ==
  /\ input_state = Input_default
  /\ ext1_enabled \in BOOLEAN
  /\ ext2_enabled \in BOOLEAN
  /\ last_value = [b \in MultiTap |-> TRUE]
  /\ last_click = [b \in MultiTap |-> 0]
  /\ last_time = [b \in MultiTap |-> None]
  /\ now = 0
  /\ upd_pc = "idle"
  /\ next_input = Input_default
  /\ cycles = 0
  /\ cycle = [a |-> None, b |-> None, high |-> {}, local |-> Input_default]

\* No event matched yet.
NoEvent ==
  [type |-> "None", instruction |-> None, address |-> 0,
   after_stop |-> FALSE, wrote |-> <<>>]

\* Line 43 and lines 154-160, 175-179: the address starts at 0, the I2C block
\* is set up as a peripheral under it, the decode instructions are zeroed.
I2cInit ==
  /\ I2C_ADDRESS = 0
  /\ peripheral_address = 0
  /\ program_i2c = Some("ProgramI2C")
  /\ ext1_decode_instructions = Zeroes(248)
  /\ ext2_decode_instructions = Zeroes(248)
  /\ instruction = None
  /\ i2c_pc = "idle"
  /\ bus = None
  /\ last = NoEvent
  /\ reads = 0
  /\ after_stop = FALSE
  /\ set_address_trace = [stage |-> 0, byte |-> 0]
  /\ produced = {Input_default}

\* Lines 138-152: an enable line found high gets its falling edge enabled,
\* one found low its rising edge.
EnablePin(high) ==
  [high |-> high, edge |-> IF high THEN "EdgeLow" ELSE "EdgeHigh",
   latched |-> {}]

\* Lines 91-197: init returns its resources without a call of
\* dispatch_input_tasks::spawn() or update_inputs::spawn().
SpawnedByInit == {}

\* The enable lines as init read them; no button has been read yet.
EnvInit ==
  /\ en_ext1 = EnablePin(ext1_enabled)
  /\ en_ext2 = EnablePin(ext2_enabled)
  /\ power_pc = [pc |-> "idle", ext1 |-> ext1_enabled, ext2 |-> ext2_enabled]
  /\ history = [b \in MultiTap |->
                  [asserted |-> FALSE, was |-> FALSE, released |-> None,
                   click |-> 0, time |-> None]]
  /\ absent = None
  /\ ready = SpawnedByInit

\* No pack or unpack under way.
CodecOff ==
  /\ codec_pc = "off"
  /\ codec_view = "Input"
  /\ codec_value = Input_default
  /\ codec_buffer = <<>>
  /\ codec_before = <<>>
  /\ codec_packed = PackOk(<<>>)
  /\ codec_result = UnpackErr

\* ------------------------------------------------------------------------
\* update_inputs (main-input/src/main.rs)
\* ------------------------------------------------------------------------

\* update_inputs runs at priority 1: it makes no step while i2c_interrupt
\* (priority 2) is running, nor after a panic has halted the core.

\* Lines 285-449: poll the extensions, read the clock and the pins, leaving
\* the result in next_input. buffer1/buffer2 are what the extensions put on
\* the bus, high the pins that read high, delay the time since the last
\* cycle's read of the clock.
UpdateCompute(buffer1, buffer2, high, delay) ==
  /\ i2c_pc = "idle"
  /\ upd_pc = "idle"
  /\ cycles < MaxCycles
  /\ LET t == now + delay
         e1 == UpdateExtension1(ext1_enabled, buffer1)
         e2 == UpdateExtension2(e1, ext2_enabled, buffer2)
         st == LocalControls(e2, high, t, last_value, last_click, last_time)
     IN  /\ now' = t
         /\ next_input' = st.next_input
         /\ last_value' = st.last_value
         /\ last_click' = st.last_click
         /\ last_time' = st.last_time
         /\ cycle' =
              [a |-> IF ext1_enabled THEN Some(Input_unpack(buffer1).value) ELSE None,
               b |-> IF ext2_enabled THEN Some(Input_unpack(buffer2).value) ELSE None,
               high |-> high,
               local |-> LocalControls(Input_default, high, t, last_value,
                                       last_click, last_time).next_input]
  /\ upd_pc' = "lock"
  /\ UNCHANGED <<input_state, ext1_enabled, ext2_enabled, cycles>>
  /\ UNCHANGED <<i2cVars, codecVars, envVars>>

\* Line 451: input_state.lock raises the task to the resource's ceiling.
UpdateLock ==
  /\ i2c_pc = "idle"
  /\ upd_pc = "lock"
  /\ upd_pc' = "flags"
  /\ UNCHANGED <<input_state, ext1_enabled, ext2_enabled, last_value,
                 last_click, last_time, now, next_input, cycles, cycle>>
  /\ UNCHANGED <<i2cVars, codecVars, envVars>>

\* Line 452, `*input_state = next_input`: the copy of the struct, first the
\* flag groups ...
UpdateWriteFlags ==
  /\ i2c_pc = "idle"
  /\ upd_pc = "flags"
  /\ input_state' = [input_state EXCEPT !.numpad = next_input.numpad,
                                        !.keypad = next_input.keypad,
                                        !.auxiliary = next_input.auxiliary]
  /\ upd_pc' = "rest"
  /\ UNCHANGED <<ext1_enabled, ext2_enabled, last_value, last_click,
                 last_time, now, next_input, cycles, cycle>>
  /\ UNCHANGED <<i2cVars, codecVars, envVars>>

\* ... then the analog channels and the other-payloads; line 453 leaves the
\* lock and the task ends.
UpdateWriteRest ==
  /\ i2c_pc = "idle"
  /\ upd_pc = "rest"
  /\ input_state' = [input_state EXCEPT
                       !.analog = next_input.analog,
                       !.other_input_one = next_input.other_input_one,
                       !.other_input_two = next_input.other_input_two]
  /\ upd_pc' = "idle"
  /\ cycles' = cycles + 1
  /\ produced' = produced \cup {input_state'}
  /\ UNCHANGED <<ext1_enabled, ext2_enabled, last_value, last_click,
                 last_time, now, next_input, cycle>>
  /\ UNCHANGED <<i2cState, codecVars, envVars>>

\* A failed transaction as update_inputs sees it: Err, or Ok with the buffer
\* holding the level the undriven line idles at in every bit.
FailedTransfers ==
  {[err |-> TRUE, buffer |-> <<>>], [err |-> FALSE, buffer |-> Zeroes(71)],
   [err |-> FALSE, buffer |-> Filled(71, 255)]}

\* Lines 289-311 when the transaction with extension `which` fails: either
\* spi.write or spi.transfer_in_place returns Err and unwrap() panics, or
\* the failure is not reported and the buffer as the transfer left it is
\* unpacked and merged like an answer. The other extension answers with its
\* sample.
UpdatePollFails(which, outcome, high) ==
  /\ i2c_pc = "idle"
  /\ upd_pc = "idle"
  /\ cycles < MaxCycles
  /\ IF which = "ext1" THEN ext1_enabled ELSE ext2_enabled
  /\ IF outcome.err
     THEN /\ upd_pc' = "panicked"
          /\ UNCHANGED <<now, next_input, last_value, last_click, last_time,
                         cycle, absent>>
     ELSE LET t == now + INPUT_UPDATE_DELAY_MS
              buffer1 == IF which = "ext1" THEN outcome.buffer
                         ELSE Input_pack(SampleInputOne, Zeroes(71)).buffer
              buffer2 == IF which = "ext2" THEN outcome.buffer
                         ELSE Input_pack(SampleInputTwo, Zeroes(71)).buffer
              e1 == UpdateExtension1(ext1_enabled, buffer1)
              e2 == UpdateExtension2(e1, ext2_enabled, buffer2)
              st == LocalControls(e2, high, t, last_value, last_click, last_time)
              a1 == UpdateExtension1(ext1_enabled /\ which # "ext1", buffer1)
              a2 == UpdateExtension2(a1, ext2_enabled /\ which # "ext2", buffer2)
          IN  /\ now' = t
              /\ next_input' = st.next_input
              /\ last_value' = st.last_value
              /\ last_click' = st.last_click
              /\ last_time' = st.last_time
              /\ cycle' =
                   [a |-> IF ext1_enabled THEN Some(Input_unpack(buffer1).value)
                          ELSE None,
                    b |-> IF ext2_enabled THEN Some(Input_unpack(buffer2).value)
                          ELSE None,
                    high |-> high,
                    local |-> LocalControls(Input_default, high, t, last_value,
                                            last_click, last_time).next_input]
              /\ absent' =
                   [some |-> TRUE, cycle |-> cycles + 1,
                    value |-> LocalControls(a2, high, t, last_value, last_click,
                                            last_time).next_input]
              /\ upd_pc' = "lock"
  /\ UNCHANGED <<input_state, ext1_enabled, ext2_enabled, cycles>>
  /\ UNCHANGED <<en_ext1, en_ext2, power_pc, history, ready>>
  /\ UNCHANGED <<i2cVars, codecVars>>

AggCompute ==
  \E buffer1 \in SampleReplies, buffer2 \in SampleReplies,
     high \in SampleReadings, delay \in SampleDelays :
    UpdateCompute(buffer1, buffer2, high, delay)

AggNext == AggCompute \/ UpdateLock \/ UpdateWriteFlags \/ UpdateWriteRest

\* The aggregation task on its own: no bus event arrives.
InitAgg == AggInit /\ I2cInit /\ CodecOff /\ EnvInit

SpecAgg == InitAgg /\ [][AggNext]_vars

\* ------------------------------------------------------------------------
\* The host and i2c_interrupt (main-input/src/main.rs)
\* ------------------------------------------------------------------------

\* How much of Start(9), Write(b), Stop the host's latest events spell.
TraceStep(trace, event) ==
  CASE event.type = "Start" /\ event.byte = 9 -> [stage |-> 1, byte |-> 0]
    [] event.type = "Write" /\ trace.stage = 1 -> [stage |-> 2, byte |-> event.byte]
    [] event.type = "Stop" /\ trace.stage = 2 -> [stage |-> 3, byte |-> trace.byte]
    [] OTHER -> [stage |-> 0, byte |-> 0]

\* The host puts the next event on the bus once the last one was taken; a
\* halted device takes none, the block keeps the one it holds.
HostIssue(event) ==
  /\ ~bus.some \/ i2c_pc = "panicked"
  /\ event.type = "Read" => reads < MaxReads
  /\ bus' = IF i2c_pc = "panicked" THEN bus ELSE Some(event)
  /\ set_address_trace' = TraceStep(set_address_trace, event)
  /\ UNCHANGED <<program_i2c, I2C_ADDRESS, peripheral_address,
                 ext1_decode_instructions, ext2_decode_instructions,
                 instruction, i2c_pc, last, reads, after_stop, produced>>
  /\ UNCHANGED <<aggVars, codecVars, envVars>>

\* The host driving every request.
RespHost == \E event \in BusEvents : HostIssue(event)

\* The host reading the state while update_inputs runs.
SysHost == \E event \in SysEvents : HostIssue(event)

\* A faulty variant of I2cMayPreempt: the interrupt is taken inside
\* input_state.lock as well.
I2cMayPreempt_ignoring_lock == TRUE

\* Lines 451-453 and 456-466: i2c_interrupt shares input_state, so the lock
\* update_inputs takes raises it to priority 2 and I2C1_IRQ stays pending
\* until the lock is left.
I2cMayPreempt == upd_pc \notin {"flags", "rest"}

\* Lines 468-474: I2C1_IRQ is taken; `let mut instruction = None`.
I2cEnter ==
  /\ i2c_pc = "idle"
  /\ bus.some
  /\ I2cMayPreempt
  /\ i2c_pc' = "loop"
  /\ instruction' = None
  /\ UNCHANGED <<program_i2c, I2C_ADDRESS, peripheral_address,
                 ext1_decode_instructions, ext2_decode_instructions, bus,
                 last, reads, after_stop, set_address_trace, produced>>
  /\ UNCHANGED <<aggVars, codecVars, envVars>>

\* Line 476: program_i2c.take().unwrap() on None panics.
I2cPanic ==
  /\ i2c_pc = "loop"
  /\ ~program_i2c.some
  /\ i2c_pc' = "panicked"
  /\ UNCHANGED <<program_i2c, I2C_ADDRESS, peripheral_address,
                 ext1_decode_instructions, ext2_decode_instructions,
                 instruction, bus, last, reads, after_stop,
                 set_address_trace, produced>>
  /\ UNCHANGED <<aggVars, codecVars, envVars>>

\* Lines 476-480: the handle is taken, i2c.next() has no event, `break`
\* drops the handle and the handler returns, program_i2c left None.
I2cBreak ==
  /\ i2c_pc = "loop"
  /\ program_i2c.some
  /\ ~bus.some
  /\ program_i2c' = None
  /\ i2c_pc' = "idle"
  /\ UNCHANGED <<I2C_ADDRESS, peripheral_address, ext1_decode_instructions,
                 ext2_decode_instructions, instruction, bus, last, reads,
                 after_stop, set_address_trace, produced>>
  /\ UNCHANGED <<aggVars, codecVars, envVars>>

\* Lines 476-565: the handle is taken, i2c.next() yields the event, the
\* match handles it and the handle is put back.
I2cEvent ==
  /\ i2c_pc = "loop"
  /\ program_i2c.some
  /\ bus.some
  /\ LET event == bus.value
         wrote == IF event.type = "Read"
                    THEN OnRead(instruction, input_state,
                                ext1_decode_instructions,
                                ext2_decode_instructions, I2C_ADDRESS)
                    ELSE <<>>
     IN  /\ instruction' =
              CASE event.type \in {"Start", "Restart"} -> OnStart(event.byte)
                [] event.type = "Stop" -> OnStop(instruction)
                [] OTHER -> instruction
         /\ I2C_ADDRESS' =
              IF event.type = "Write"
                THEN OnWrite(instruction, event.byte, I2C_ADDRESS)
                ELSE I2C_ADDRESS
         /\ peripheral_address' =
              IF event.type = "Write" /\ instruction = Some("SetAddress")
                THEN I2C_ADDRESS'
                ELSE peripheral_address
         /\ last' = [type |-> event.type, instruction |-> instruction,
                     address |-> I2C_ADDRESS, after_stop |-> after_stop,
                     wrote |-> wrote]
         /\ reads' = CASE event.type = "Read" -> reads + 1
                       [] event.type = "Write" -> reads
                       [] OTHER -> 0
         /\ after_stop' = CASE event.type \in {"Start", "Restart"} -> FALSE
                            [] event.type = "Stop" -> TRUE
                            [] OTHER -> after_stop
  /\ program_i2c' = Some("ProgramI2C")
  /\ bus' = None
  /\ UNCHANGED <<ext1_decode_instructions, ext2_decode_instructions, i2c_pc,
                 set_address_trace, produced>>
  /\ UNCHANGED <<aggVars, codecVars, envVars>>

\* update_inputs polling both extensions while the bus is served.
SysCompute ==
  \E high \in SysReadings :
    UpdateCompute(Input_pack(SampleInputOne, Zeroes(71)).buffer,
                  Input_pack(SampleInputTwo, Zeroes(71)).buffer,
                  high, INPUT_UPDATE_DELAY_MS)

SysNext ==
  \/ SysCompute
  \/ UpdateLock
  \/ UpdateWriteFlags
  \/ UpdateWriteRest
  \/ SysHost
  \/ I2cEnter
  \/ I2cPanic
  \/ I2cBreak
  \/ I2cEvent

\* update_inputs, the host and i2c_interrupt together.
SpecSys == InitAgg /\ [][SysNext]_vars

PollFails ==
  \E which \in {"ext1", "ext2"}, outcome \in FailedTransfers,
     high \in SysReadings :
    UpdatePollFails(which, outcome, high)

PollNext ==
  \/ SysCompute
  \/ PollFails
  \/ UpdateLock
  \/ UpdateWriteFlags
  \/ UpdateWriteRest

\* The aggregation task polling extensions whose transactions may fail.
SpecPoll == InitAgg /\ [][PollNext]_vars

\* ------------------------------------------------------------------------
\* power_interrupt (main-input/src/main.rs)
\* ------------------------------------------------------------------------

\* An enable line changes level: the edge is latched in the pin's
\* interrupt status, which nothing in the program clears.
LineLevel(en, high) ==
  [en EXCEPT !.high = high,
             !.latched = @ \cup {IF high THEN "EdgeHigh" ELSE "EdgeLow"}]

\* IO_IRQ_BANK0 is asserted while a latched edge of a pin is enabled.
IrqAsserted(en) == en.edge \in en.latched

\* set_interrupt_enabled of the two edges, lines 596-603 and 610-617.
WatchEdge(en, ext) ==
  [en EXCEPT !.edge = IF ext THEN "EdgeLow" ELSE "EdgeHigh"]

\* Lines 592-605: extension 1's line is sampled; on a change the flag is
\* stored and the other edge is watched; a rise asks for a fetch.
CheckExtension1(enabled, en) ==
  LET ext1 == en.high
  IN  IF ext1 # enabled
      THEN [enabled |-> ext1, en |-> WatchEdge(en, ext1), new |-> ext1]
      ELSE [enabled |-> enabled, en |-> en, new |-> FALSE]

\* Lines 607-619: extension 2's line is sampled; on a difference from the
\* flag the other edge is watched and a rise asks for a fetch; the flag is
\* not assigned.
CheckExtension2(enabled, en) ==
  LET ext2 == en.high
  IN  IF ext2 # enabled
      THEN [enabled |-> enabled, en |-> WatchEdge(en, ext2), new |-> ext2]
      ELSE [enabled |-> enabled, en |-> en, new |-> FALSE]

\* What a fetch sees: Err from write or transfer_in_place, or the 248 bytes
\* the extension clocked out.
FetchOutcomes(block) ==
  {[err |-> TRUE, buffer |-> <<>>], [err |-> FALSE, buffer |-> block]}

\* Lines 585-649: the handler, from the lock to the second fetch. A fetch
\* that returns Err panics at unwrap, after the lock has been left.
PowerInterrupt(reply1, reply2) ==
  /\ power_pc.pc # "panicked"
  /\ upd_pc = "idle"
  /\ i2c_pc = "idle"
  /\ IrqAsserted(en_ext1) \/ IrqAsserted(en_ext2)
  /\ LET one == CheckExtension1(ext1_enabled, en_ext1)
         two == CheckExtension2(ext2_enabled, en_ext2)
         failed1 == one.new /\ reply1.err
         failed2 == ~failed1 /\ two.new /\ reply2.err
     IN  /\ ext1_enabled' = one.enabled
         /\ ext2_enabled' = two.enabled
         /\ en_ext1' = one.en
         /\ en_ext2' = two.en
         /\ ext1_decode_instructions' =
              IF one.new /\ ~failed1 THEN reply1.buffer
              ELSE ext1_decode_instructions
         /\ ext2_decode_instructions' =
              IF two.new /\ ~failed1 /\ ~failed2 THEN reply2.buffer
              ELSE ext2_decode_instructions
         /\ power_pc' = [pc |-> IF failed1 \/ failed2 THEN "panicked" ELSE "ran",
                         ext1 |-> en_ext1.high, ext2 |-> en_ext2.high]
  /\ UNCHANGED <<input_state, last_value, last_click, last_time, now, upd_pc,
                 next_input, cycles, cycle>>
  /\ UNCHANGED <<program_i2c, I2C_ADDRESS, peripheral_address, instruction,
                 i2c_pc, bus, last, reads, after_stop, set_address_trace,
                 produced>>
  /\ UNCHANGED <<history, absent, ready, codecVars>>

\* An extension is plugged in or pulled out.
LineChange(which) ==
  /\ power_pc.pc # "panicked"
  /\ IF which = "ext1"
     THEN /\ en_ext1' = LineLevel(en_ext1, ~en_ext1.high)
          /\ UNCHANGED en_ext2
     ELSE /\ en_ext2' = LineLevel(en_ext2, ~en_ext2.high)
          /\ UNCHANGED en_ext1
  /\ UNCHANGED <<power_pc, history, absent, ready>>
  /\ UNCHANGED <<aggVars, i2cVars, codecVars>>

PowerLines == \E which \in {"ext1", "ext2"} : LineChange(which)

PowerRuns ==
  \E reply1 \in FetchOutcomes(SampleDecodeOne),
     reply2 \in FetchOutcomes(SampleDecodeTwo) :
    PowerInterrupt(reply1, reply2)

PowerNext == PowerLines \/ PowerRuns

\* The enable lines and power_interrupt.
SpecPower == InitAgg /\ [][PowerNext]_vars

\* ------------------------------------------------------------------------
\* update_inputs tick by tick, no extension connected
\* ------------------------------------------------------------------------

\* Ticks taken.
MaxTicks == 4

\* Readings of a tick: nothing pressed, one button, two neighbours.
TapReadings == {{}, {"b2"}, {"b3"}, {"b9"}, {"b2", "b3"}}

\* Time from one tick to the next: the period, or longer than the window.
TapDelays == {INPUT_UPDATE_DELAY_MS, SEQUENCE_DELAY_MS + 100}

\* Lines 285-454 as one step: the extensions are skipped, the controls are
\* read at `now` and the result replaces input_state.
TapTick(high, delay) ==
  /\ upd_pc = "idle"
  /\ i2c_pc = "idle"
  /\ ~ext1_enabled /\ ~ext2_enabled
  /\ cycles < MaxTicks
  /\ LET t == now + delay
         st == LocalControls(Input_default, high, t, last_value, last_click,
                             last_time)
     IN  /\ now' = t
         /\ next_input' = st.next_input
         /\ input_state' = st.next_input
         /\ last_value' = st.last_value
         /\ last_click' = st.last_click
         /\ last_time' = st.last_time
         /\ cycle' = [a |-> None, b |-> None, high |-> high,
                      local |-> st.next_input]
         /\ produced' = produced \cup {st.next_input}
         /\ history' =
              [b \in MultiTap |->
                 [asserted |-> b \in high,
                  was |-> history[b].asserted,
                  released |-> IF b \notin high /\ history[b].asserted
                               THEN Some(t) ELSE history[b].released,
                  click |-> last_click[b],
                  time |-> last_time[b]]]
  /\ cycles' = cycles + 1
  /\ UNCHANGED <<ext1_enabled, ext2_enabled, upd_pc>>
  /\ UNCHANGED <<i2cState, codecVars>>
  /\ UNCHANGED <<en_ext1, en_ext2, power_pc, absent, ready>>

TapNext == \E high \in TapReadings, delay \in TapDelays : TapTick(high, delay)

\* The device after init, no extension connected.
InitTap ==
  /\ AggInit
  /\ ext1_enabled = FALSE
  /\ ext2_enabled = FALSE
  /\ I2cInit
  /\ EnvInit
  /\ CodecOff

SpecTap == InitTap /\ [][TapNext]_vars

\* ------------------------------------------------------------------------
\* The device from init on: idle, the dispatcher of the software tasks,
\* power_interrupt
\* ------------------------------------------------------------------------

\* Lines 199-222 and 285-454: idle waits for an interrupt. The dispatcher of
\* the priority-1 software tasks runs the tasks that were spawned: one turn
\* of dispatch_input_tasks' loop spawns update_inputs, which runs a cycle
\* and replaces input_state, and waits for the next period. With no task
\* spawned the processor goes back to wfi.
Wake(high) ==
  /\ power_pc.pc # "panicked"
  /\ upd_pc = "idle"
  /\ i2c_pc = "idle"
  /\ IF "dispatch_input_tasks" \in ready /\ cycles < MaxCycles
     THEN LET t == now + INPUT_UPDATE_DELAY_MS
              buffer1 == Input_pack(SampleInputOne, Zeroes(71)).buffer
              buffer2 == Input_pack(SampleInputTwo, Zeroes(71)).buffer
              e1 == UpdateExtension1(ext1_enabled, buffer1)
              e2 == UpdateExtension2(e1, ext2_enabled, buffer2)
              st == LocalControls(e2, high, t, last_value, last_click, last_time)
          IN  /\ now' = t
              /\ next_input' = st.next_input
              /\ input_state' = st.next_input
              /\ last_value' = st.last_value
              /\ last_click' = st.last_click
              /\ last_time' = st.last_time
              /\ cycle' =
                   [a |-> IF ext1_enabled THEN Some(SampleInputOne) ELSE None,
                    b |-> IF ext2_enabled THEN Some(SampleInputTwo) ELSE None,
                    high |-> high,
                    local |-> LocalControls(Input_default, high, t, last_value,
                                            last_click, last_time).next_input]
              /\ cycles' = cycles + 1
              /\ produced' = produced \cup {st.next_input}
     ELSE UNCHANGED <<now, next_input, input_state, last_value, last_click,
                      last_time, cycle, cycles, produced>>
  /\ UNCHANGED <<ext1_enabled, ext2_enabled, upd_pc>>
  /\ UNCHANGED <<i2cState, codecVars, envVars>>

LiveWake == \E high \in SysReadings : Wake(high)

LiveNext == PowerLines \/ PowerRuns \/ LiveWake

\* An asserted interrupt is served and a ready task is dispatched; when an
\* extension is plugged in or pulled out is up to the user.
SpecLive ==
  InitAgg /\ [][LiveNext]_vars /\ WF_vars(PowerRuns) /\ WF_vars(LiveWake)

\* The device when the host's first event arrives, after an aggregation
\* cycle with no pin high: with no extension connected (input_state and the
\* decode blocks are as init left them) or with both connected and polled,
\* their decode blocks fetched by power_interrupt.
InitResp ==
  /\ ext1_enabled \in BOOLEAN
  /\ ext2_enabled = ext1_enabled
  /\ LET buffer1 == Input_pack(SampleInputOne, Zeroes(71)).buffer
         buffer2 == Input_pack(SampleInputTwo, Zeroes(71)).buffer
         e1 == UpdateExtension1(ext1_enabled, buffer1)
         e2 == UpdateExtension2(e1, ext2_enabled, buffer2)
         st == LocalControls(e2, {}, INPUT_UPDATE_DELAY_MS,
                             [b \in MultiTap |-> TRUE], [b \in MultiTap |-> 0],
                             [b \in MultiTap |-> None])
     IN  /\ input_state = st.next_input
         /\ next_input = st.next_input
         /\ last_value = st.last_value
         /\ last_click = st.last_click
         /\ last_time = st.last_time
         /\ cycle = [a |-> IF ext1_enabled THEN Some(SampleInputOne) ELSE None,
                     b |-> IF ext2_enabled THEN Some(SampleInputTwo) ELSE None,
                     high |-> {}, local |-> Input_default]
  /\ now = INPUT_UPDATE_DELAY_MS
  /\ upd_pc = "idle"
  /\ cycles = 1
  /\ I2C_ADDRESS = 0
  /\ peripheral_address = 0
  /\ program_i2c = Some("ProgramI2C")
  /\ ext1_decode_instructions =
       IF ext1_enabled THEN SampleDecodeOne ELSE Zeroes(248)
  /\ ext2_decode_instructions =
       IF ext2_enabled THEN SampleDecodeTwo ELSE Zeroes(248)
  /\ instruction = None
  /\ i2c_pc = "idle"
  /\ bus = None
  /\ last = NoEvent
  /\ reads = 0
  /\ after_stop = FALSE
  /\ set_address_trace = [stage |-> 0, byte |-> 0]
  /\ produced = {Input_default, input_state}
  /\ CodecOff
  /\ EnvInit

RespNext == RespHost \/ I2cEnter \/ I2cPanic \/ I2cBreak \/ I2cEvent

\* The host and i2c_interrupt between two aggregation cycles.
SpecResp == InitResp /\ [][RespNext]_vars

\* ------------------------------------------------------------------------
\* The codec on its own: pack a value, unpack what was packed
\* ------------------------------------------------------------------------

InitCodec ==
  /\ AggInit
  /\ ext1_enabled = FALSE
  /\ ext2_enabled = FALSE
  /\ I2cInit
  /\ EnvInit
  /\ codec_pc = "start"
  /\ codec_view \in Views
  /\ codec_value \in ViewValues(codec_view)
  /\ codec_buffer \in ViewBuffers(ViewSize(codec_view))
  /\ codec_before = codec_buffer
  /\ codec_packed = PackOk(<<>>)
  /\ codec_result = UnpackErr

\* `codec_value.pack(&mut codec_buffer)`
CodecPack ==
  /\ codec_pc = "start"
  /\ codec_packed' = ViewPack(codec_view, codec_value, codec_buffer)
  /\ codec_buffer' = codec_packed'.buffer
  /\ codec_pc' = "packed"
  /\ UNCHANGED <<codec_view, codec_value, codec_before, codec_result>>
  /\ UNCHANGED <<aggVars, i2cVars, envVars>>

\* `T::unpack(&codec_buffer)`
CodecUnpack ==
  /\ codec_pc = "packed"
  /\ codec_result' = ViewUnpack(codec_view, codec_buffer)
  /\ codec_pc' = "unpacked"
  /\ UNCHANGED <<codec_view, codec_value, codec_buffer, codec_before,
                 codec_packed>>
  /\ UNCHANGED <<aggVars, i2cVars, envVars>>

CodecNext == CodecPack \/ CodecUnpack

SpecCodec == InitCodec /\ [][CodecNext]_vars

\* ------------------------------------------------------------------------
\* The codec the other way round: unpack a buffer, pack what was unpacked
\* ------------------------------------------------------------------------

InitRecode ==
  /\ AggInit
  /\ ext1_enabled = FALSE
  /\ ext2_enabled = FALSE
  /\ I2cInit
  /\ EnvInit
  /\ codec_pc = "raw"
  /\ codec_view \in Views
  /\ codec_value = Input_default
  /\ codec_buffer \in RawBuffers(codec_view)
  /\ codec_before = codec_buffer
  /\ codec_packed = PackOk(<<>>)
  /\ codec_result = UnpackErr

\* `T::unpack(&codec_buffer)`
CodecUnpackRaw ==
  /\ codec_pc = "raw"
  /\ codec_result' = ViewUnpack(codec_view, codec_buffer)
  /\ codec_pc' = "parsed"
  /\ UNCHANGED <<codec_view, codec_value, codec_buffer, codec_before,
                 codec_packed>>
  /\ UNCHANGED <<aggVars, i2cVars, envVars>>

\* `value.pack(&mut [0u8; N])` of the value unpacked.
CodecRepack ==
  /\ codec_pc = "parsed"
  /\ ~codec_result.err
  /\ codec_value' = codec_result.value
  /\ codec_packed' = ViewPack(codec_view, codec_result.value,
                              Zeroes(ViewSize(codec_view)))
  /\ codec_buffer' = codec_packed'.buffer
  /\ codec_pc' = "repacked"
  /\ UNCHANGED <<codec_view, codec_before, codec_result>>
  /\ UNCHANGED <<aggVars, i2cVars, envVars>>

RecodeNext == CodecUnpackRaw \/ CodecRepack

SpecRecode == InitRecode /\ [][RecodeNext]_vars

\* ------------------------------------------------------------------------
\* The tag codecs of other.rs: pack then unpack, and unpack of raw bytes
\* ------------------------------------------------------------------------

\* Arrays of 24 tags: `lead` copies of `first`, one `tag`, the rest `fill`.
TagArray(lead, first, tag, fill) ==
  [i \in 1..24 |-> IF i <= lead THEN first
                   ELSE IF i = lead + 1 THEN tag ELSE fill]

\* test_pack_data_sizes, test_pack_data_types: the arrays of the tests.
TestDataSizes ==
  [i \in 1..24 |-> IF i = 2 THEN "Two" ELSE IF i = 3 THEN "Four"
                   ELSE IF i = 4 THEN "Eight" ELSE "One"]

TestDataTypes ==
  [i \in 1..24 |-> IF i = 2 THEN "Signed" ELSE IF i = 3 THEN "Floating"
                   ELSE "Unsigned"]

\* test_pack_decode_instructions: "test0".."test9" in the first ten names.
TestFields ==
  [i \in 1..24 |-> IF i <= 10 THEN <<116, 101, 115, 116, 47 + i, 0, 0, 0, 0, 0>>
                   ELSE Zeroes(10)]

SampleDataSizes ==
  {TestDataSizes}
    \cup {TagArray(lead, "One", tag, fill) :
            lead \in 0..23, tag \in DataSize, fill \in DataSize}

SampleDataTypes ==
  {TestDataTypes}
    \cup {TagArray(lead, "Unsigned", tag, fill) :
            lead \in 0..23, tag \in DataType, fill \in DataType}

SampleDecodeInstructions ==
  [module_id : {0, 4626},
   data_sizes : {TestDataSizes, TagArray(0, "One", "One", "One"),
                 TagArray(2, "Eight", "Four", "Two"),
                 TagArray(23, "One", "Two", "One")},
   data_types : {TestDataTypes, TagArray(0, "Unsigned", "Unsigned", "Unsigned"),
                 TagArray(0, "Signed", "Signed", "Signed"),
                 TagArray(0, "Floating", "Floating", "Floating"),
                 TagArray(23, "Unsigned", "Signed", "Unsigned")},
   fields : {TestFields, DecodeInstructions_default.fields}]

TagValues(view) ==
  CASE view = "DataSizes" -> SampleDataSizes
    [] view = "DataTypes" -> SampleDataTypes
    [] view = "DecodeInstructions" -> SampleDecodeInstructions

\* Three received bytes: all zero, the tests' bytes, single and mixed bits.
RawTagBytes == {0, 1, 2, 37, 128, 254, 255}
RawTags == [1..3 -> RawTagBytes]

InitTags ==
  /\ AggInit
  /\ ext1_enabled = FALSE
  /\ ext2_enabled = FALSE
  /\ I2cInit
  /\ EnvInit
  /\ codec_view \in TagViews
  /\ codec_pc \in {"start", "raw"}
  /\ IF codec_pc = "start"
       THEN /\ codec_value \in TagValues(codec_view)
            /\ codec_buffer \in {Zeroes(TagSize(codec_view)),
                                 Filled(TagSize(codec_view), 255)}
       ELSE /\ codec_view \in {"DataSizes", "DataTypes"}
            /\ codec_value = Input_default
            /\ codec_buffer \in RawTags
  /\ codec_before = codec_buffer
  /\ codec_packed = PackOk(<<>>)
  /\ codec_result = UnpackErr

\* `codec_value.pack(&mut codec_buffer)`
TagsPack ==
  /\ codec_pc = "start"
  /\ codec_packed' = TagPack(codec_view, codec_value, codec_buffer)
  /\ codec_buffer' = codec_packed'.buffer
  /\ codec_pc' = "packed"
  /\ UNCHANGED <<codec_view, codec_value, codec_before, codec_result>>
  /\ UNCHANGED <<aggVars, i2cVars, envVars>>

\* `T::unpack(&codec_buffer)` of what pack wrote.
TagsUnpack ==
  /\ codec_pc = "packed"
  /\ codec_result' = TagUnpack(codec_view, codec_buffer)
  /\ codec_pc' = "unpacked"
  /\ UNCHANGED <<codec_view, codec_value, codec_buffer, codec_before,
                 codec_packed>>
  /\ UNCHANGED <<aggVars, i2cVars, envVars>>

\* `T::unpack(&codec_buffer)` of three received bytes.
TagsUnpackRaw ==
  /\ codec_pc = "raw"
  /\ codec_result' = TagUnpack(codec_view, codec_buffer)
  /\ codec_pc' = "parsed"
  /\ UNCHANGED <<codec_view, codec_value, codec_buffer, codec_before,
                 codec_packed>>
  /\ UNCHANGED <<aggVars, i2cVars, envVars>>

TagsNext == TagsPack \/ TagsUnpack \/ TagsUnpackRaw

SpecTags == InitTags /\ [][TagsNext]_vars

\* Buffer lengths around the two checks: below 8, from 8 up to 247, and 248.
ShortLengths == {0, 1, 7, 8, 9, 17, 100, 247, 248}

\* Decode instructions packed into and unpacked from buffers of these
\* lengths: zeroed or filled destinations; as sources, the leading bytes of
\* a sample's packing and buffers of one byte throughout.
InitShort ==
  /\ AggInit
  /\ ext1_enabled = FALSE
  /\ ext2_enabled = FALSE
  /\ I2cInit
  /\ EnvInit
  /\ codec_view = "DecodeInstructions"
  /\ codec_pc \in {"start", "raw"}
  /\ IF codec_pc = "start"
       THEN /\ codec_value \in SampleDecodeInstructions
            /\ codec_buffer \in
                 UNION {{Zeroes(n), Filled(n, 255)} : n \in ShortLengths}
       ELSE /\ codec_value = Input_default
            /\ codec_buffer \in
                 {SubSeq(DecodeInstructions_pack(v, Zeroes(248)).buffer, 1, n) :
                    v \in SampleDecodeInstructions, n \in ShortLengths}
                   \cup UNION {{Zeroes(n), Filled(n, 255)} : n \in ShortLengths}
  /\ codec_before = codec_buffer
  /\ codec_packed = PackOk(<<>>)
  /\ codec_result = UnpackErr

SpecShort == InitShort /\ [][TagsNext]_vars

\* ------------------------------------------------------------------------
\* decode of one slot of an other-input payload
\* ------------------------------------------------------------------------

\* Payloads of 24 bytes: zeroes, 0xFF, and distinct bytes on either side
\* of 0x80.
SampleOtherInputs ==
  {Zeroes(24), Filled(24, 255), [i \in 1..24 |-> (i * 37 + 90) % 256]}

\* The payload is in codec_buffer, the index and the instructions in
\* codec_value.
InitDecode ==
  /\ AggInit
  /\ ext1_enabled = FALSE
  /\ ext2_enabled = FALSE
  /\ I2cInit
  /\ EnvInit
  /\ codec_pc = "decode"
  /\ codec_view = "OtherInput"
  /\ codec_value \in [idx : 0..24,
                       decode_instructions : SampleDecodeInstructions]
  /\ codec_buffer \in SampleOtherInputs
  /\ codec_before = codec_buffer
  /\ codec_packed = PackOk(<<>>)
  /\ codec_result = UnpackErr

\* `codec_buffer.decode(idx, &decode_instructions)`
Decode ==
  /\ codec_pc = "decode"
  /\ codec_result' = OtherInput_decode(codec_buffer, codec_value.idx,
                                       codec_value.decode_instructions)
  /\ codec_pc' = "decoded"
  /\ UNCHANGED <<codec_view, codec_value, codec_buffer, codec_before,
                 codec_packed>>
  /\ UNCHANGED <<aggVars, i2cVars, envVars>>

SpecDecode == InitDecode /\ [][Decode]_vars

\* ------------------------------------------------------------------------
\* `a | b` of two keypads
\* ------------------------------------------------------------------------

\* Right operands: no key, every key, and each key alone.
KeypadOperands ==
  {Keypad_default, [f \in KeypadFields |-> TRUE]}
    \cup {[f \in KeypadFields |-> f = g] : g \in KeypadFields}

\* The operands are in codec_value.
InitBitor ==
  /\ AggInit
  /\ ext1_enabled = FALSE
  /\ ext2_enabled = FALSE
  /\ I2cInit
  /\ EnvInit
  /\ codec_pc = "operands"
  /\ codec_view = "Keypad"
  /\ codec_value \in [self : FlagValues(KeypadFields), rhs : KeypadOperands]
  /\ codec_buffer = <<>>
  /\ codec_before = <<>>
  /\ codec_packed = PackOk(<<>>)
  /\ codec_result = UnpackErr

\* `codec_value.self | codec_value.rhs`
Bitor ==
  /\ codec_pc = "operands"
  /\ codec_result' = UnpackOk(Keypad_bitor(codec_value.self, codec_value.rhs))
  /\ codec_pc' = "ored"
  /\ UNCHANGED <<codec_view, codec_value, codec_buffer, codec_before,
                 codec_packed>>
  /\ UNCHANGED <<aggVars, i2cVars, envVars>>

SpecBitor == InitBitor /\ [][Bitor]_vars

\* ------------------------------------------------------------------------
\* `a | b` of two numpads and of two auxiliary groups
\* ------------------------------------------------------------------------

\* Right operands: no flag, every flag, and each flag alone.
FlagOperands(fields) ==
  {[f \in fields |-> FALSE], [f \in fields |-> TRUE]}
    \cup {[f \in fields |-> f = g] : g \in fields}

\* The operands are in codec_value.
InitMerge ==
  /\ AggInit
  /\ ext1_enabled = FALSE
  /\ ext2_enabled = FALSE
  /\ I2cInit
  /\ EnvInit
  /\ codec_pc = "operands"
  /\ codec_view \in {"Numpad", "Auxiliary"}
  /\ codec_value \in
       IF codec_view = "Numpad"
       THEN [self : FlagValues(NumpadFields), rhs : FlagOperands(NumpadFields)]
       ELSE [self : FlagValues(AuxiliaryFields),
             rhs : FlagOperands(AuxiliaryFields)]
  /\ codec_buffer = <<>>
  /\ codec_before = <<>>
  /\ codec_packed = PackOk(<<>>)
  /\ codec_result = UnpackErr

\* `a | b` of the group codec_view names.
FlagsBitor(view, a, b) ==
  IF view = "Numpad" THEN Numpad_bitor(a, b) ELSE Auxiliary_bitor(a, b)

\* `self | rhs`, `rhs | self` and `self | self` of the operands.
Merge ==
  /\ codec_pc = "operands"
  /\ codec_result' =
       UnpackOk([ab |-> FlagsBitor(codec_view, codec_value.self,
                                   codec_value.rhs),
                 ba |-> FlagsBitor(codec_view, codec_value.rhs,
                                   codec_value.self),
                 aa |-> FlagsBitor(codec_view, codec_value.self,
                                   codec_value.self)])
  /\ codec_pc' = "ored"
  /\ UNCHANGED <<codec_view, codec_value, codec_buffer, codec_before,
                 codec_packed>>
  /\ UNCHANGED <<aggVars, i2cVars, envVars>>

SpecMerge == InitMerge /\ [][Merge]_vars

\* ------------------------------------------------------------------------
\* InputModuleDriver::set_address
\* ------------------------------------------------------------------------

\* `InputRequest::SetAddress as u8`
InputRequest_SetAddress == 9

MaxCalls == 3

\* Addresses a driver is built with, and addresses it is asked to set.
DriverAddresses == {32, 127}
NewAddresses == {8, 33, 127, 200}

\* What `self.i2c.write(address, &buffer)` returns: Ok(()) or the bus's
\* error.
I2cWriteOutcomes ==
  {[err |-> FALSE], [err |-> TRUE, error |-> "NoAcknowledge"],
   [err |-> TRUE, error |-> "ArbitrationLoss"]}

\* A faulty variant of set_address: the address is stored before the
\* write's result is looked at.
set_address_before_write(address, new_address, written) ==
  [address |-> new_address,
   wrote |-> [address |-> address,
              bytes |-> <<InputRequest_SetAddress, new_address>>],
   result |-> IF written.err THEN written ELSE [err |-> FALSE]]

\* `driver.set_address(new_address)` of a driver whose stored address is
\* address, when the bus write returns written: the buffer goes to the
\* stored address, `?` returns an Err as it is, and only after Ok is the
\* new address stored.
set_address(address, new_address, written) ==
  LET buffer == <<InputRequest_SetAddress, new_address>>
      wrote == [address |-> address, bytes |-> buffer]
  IN  IF written.err
      THEN [address |-> address, wrote |-> wrote, result |-> written]
      ELSE [address |-> new_address, wrote |-> wrote,
            result |-> [err |-> FALSE]]

\* `InputModuleDriver::new(address, i2c)`; codec_value.good is the address
\* of the last call whose write succeeded, the first address at first.
InitDriver ==
  /\ AggInit
  /\ ext1_enabled = FALSE
  /\ ext2_enabled = FALSE
  /\ I2cInit
  /\ EnvInit
  /\ codec_pc = "new"
  /\ codec_view = "InputModuleDriver"
  /\ codec_value \in [address : DriverAddresses, calls : {0},
                       old : {0}, new_address : {0},
                       written : {[err |-> FALSE]},
                       wrote : {[address |-> 0, bytes |-> <<>>]},
                       good : DriverAddresses, first : DriverAddresses]
  /\ codec_value.good = codec_value.address
  /\ codec_value.first = codec_value.address
  /\ codec_buffer = <<>>
  /\ codec_before = <<>>
  /\ codec_packed = PackOk(<<>>)
  /\ codec_result = [err |-> FALSE]

\* One call of set_address.
SetAddress ==
  /\ codec_pc \in {"new", "called"}
  /\ codec_value.calls < MaxCalls
  /\ \E new_address \in NewAddresses, written \in I2cWriteOutcomes :
       LET call == set_address(codec_value.address, new_address, written)
       IN  /\ codec_value' =
                [address |-> call.address,
                 calls |-> codec_value.calls + 1,
                 old |-> codec_value.address,
                 new_address |-> new_address,
                 written |-> written,
                 wrote |-> call.wrote,
                 good |-> IF written.err THEN codec_value.good
                          ELSE new_address,
                 first |-> codec_value.first]
           /\ codec_result' = call.result
  /\ codec_pc' = "called"
  /\ UNCHANGED <<codec_view, codec_buffer, codec_before, codec_packed>>
  /\ UNCHANGED <<aggVars, i2cVars, envVars>>

SpecDriver == InitDriver /\ [][SetAddress]_vars

\* ------------------------------------------------------------------------
\* check_three_input and check_four_input as functions
\* ------------------------------------------------------------------------

\* Instants in ms: start-up, one period on, either side of the window, later.
SampleInstants == {0, 10, 499, 500, 501, 1000}

\* Counters below the u8 maximum: fresh, within a cycle, past one, high.
SampleClicks == {0, 1, 2, 3, 5, 200, 254}

\* A call on an asserted tick: last_time is None or an instant not after now.
InitCheck ==
  /\ AggInit
  /\ ext1_enabled = FALSE
  /\ ext2_enabled = FALSE
  /\ I2cInit
  /\ EnvInit
  /\ codec_pc = "check"
  /\ codec_view \in {"check_three_input", "check_four_input"}
  /\ codec_value \in
       {call \in [now : SampleInstants,
                  last_time : {None} \cup {Some(i) : i \in SampleInstants},
                  last_click : SampleClicks] :
          call.last_time.some => call.last_time.value <= call.now}
  /\ codec_buffer = <<>>
  /\ codec_before = <<>>
  /\ codec_packed = PackOk(<<>>)
  /\ codec_result = UnpackErr

\* `check_three_input(now, last_time, &mut last_click)`, or check_four_input
Check ==
  /\ codec_pc = "check"
  /\ codec_result' =
       IF codec_view = "check_three_input"
       THEN check_three_input(codec_value.now, codec_value.last_time,
                              codec_value.last_click)
       ELSE check_four_input(codec_value.now, codec_value.last_time,
                             codec_value.last_click)
  /\ codec_pc' = "checked"
  /\ UNCHANGED <<codec_view, codec_value, codec_buffer, codec_before,
                 codec_packed>>
  /\ UNCHANGED <<aggVars, i2cVars, envVars>>

SpecCheck == InitCheck /\ [][Check]_vars

\* ------------------------------------------------------------------------
\* check_three_input and check_four_input while a button is held
\* ------------------------------------------------------------------------

\* Ticks a button is held for: past the range of the u8 counter.
MaxHeld == 260

\* `*last_click += 1` on a u8 holding 255: with overflow checks (a debug
\* build) the addition panics, without them (a release build) it wraps; the
\* call is otherwise check_three_input or check_four_input.
check_input_built(view, instant, time, click, overflow_checks) ==
  IF /\ overflow_checks
     /\ time.some
     /\ instant - time.value < SEQUENCE_DELAY_MS
     /\ click = 255
  THEN Panics
  ELSE IF view = "check_three_input"
       THEN check_three_input(instant, time, click)
       ELSE check_four_input(instant, time, click)

\* A button that has not been read yet, in either build.
InitHold ==
  /\ AggInit
  /\ ext1_enabled = FALSE
  /\ ext2_enabled = FALSE
  /\ I2cInit
  /\ EnvInit
  /\ codec_pc = "hold"
  /\ codec_view \in {"check_three_input", "check_four_input"}
  /\ codec_value \in [ticks : {0}, now : {0}, last_time : {None},
                       last_click : {0}, overflow_checks : BOOLEAN]
  /\ codec_buffer = <<>>
  /\ codec_before = <<>>
  /\ codec_packed = PackOk(<<>>)
  /\ codec_result = UnpackErr

\* One tick with the button asserted, one period after the last: the
\* button's block calls check_*_input and stores `now` as the timestamp.
HoldTick ==
  /\ codec_pc = "hold"
  /\ codec_value.ticks < MaxHeld
  /\ LET t == codec_value.now + INPUT_UPDATE_DELAY_MS
         r == check_input_built(codec_view, t, codec_value.last_time,
                                codec_value.last_click,
                                codec_value.overflow_checks)
     IN  IF Panicked(r)
         THEN /\ codec_pc' = "panicked"
              /\ codec_result' = r
              /\ UNCHANGED codec_value
         ELSE /\ codec_pc' = "hold"
              /\ codec_result' = r
              /\ codec_value' = [codec_value EXCEPT
                                   !.ticks = @ + 1,
                                   !.now = t,
                                   !.last_time = Some(t),
                                   !.last_click = r.last_click]
  /\ UNCHANGED <<codec_view, codec_buffer, codec_before, codec_packed>>
  /\ UNCHANGED <<aggVars, i2cVars, envVars>>

SpecHold == InitHold /\ [][HoldTick]_vars

\* ------------------------------------------------------------------------
\* relay_inputs (controller-input/src/main.rs)
\* ------------------------------------------------------------------------

\* The buffer each arm of relay_inputs declares; other requests have none.
RelayBufferSize(request) ==
  CASE request = "FullInput" -> 71
    [] request = "Numpad" -> 2
    [] request = "Keypad" -> 4
    [] request = "Auxiliary" -> 4
    [] request = "Analog" -> 12
    [] OTHER -> 0

\* Lines 159-199: the byte read selects the arm; every arm packs the whole
\* `input` into its buffer and unwraps, then writes the buffer word by word,
\* unwrapping each write. `accepted` is the number of words the line takes
\* before a write returns Err(WouldBlock).
relay_inputs(byte, input, accepted) ==
  LET request == InputRequest_from(byte)
      size == RelayBufferSize(request)
      packed == Input_pack(input, Zeroes(size))
  IN  IF size = 0 THEN [err |-> FALSE, wrote |-> <<>>]
      ELSE IF packed.err THEN Panics
      ELSE IF size > accepted THEN Panics
      ELSE [err |-> FALSE, wrote |-> packed.buffer]

\* Words the transmit side takes at once: its FIFO's depth, or every word
\* because the controller clocks them out as fast as they are written.
SampleAccepted == {8, 71}

\* The board's state when a byte arrives, the byte, the room on the line.
InitRelay ==
  /\ AggInit
  /\ ext1_enabled = FALSE
  /\ ext2_enabled = FALSE
  /\ I2cInit
  /\ EnvInit
  /\ codec_pc = "relay"
  /\ codec_view = "Input"
  /\ codec_value \in [input : InputValues, byte : InstructionBytes,
                       accepted : SampleAccepted]
  /\ codec_buffer = <<>>
  /\ codec_before = <<>>
  /\ codec_packed = PackOk(<<>>)
  /\ codec_result = UnpackErr

\* SPI0_IRQ: relay_inputs runs.
Relay ==
  /\ codec_pc = "relay"
  /\ codec_result' = relay_inputs(codec_value.byte, codec_value.input,
                                  codec_value.accepted)
  /\ codec_pc' = "relayed"
  /\ UNCHANGED <<codec_view, codec_value, codec_buffer, codec_before,
                 codec_packed>>
  /\ UNCHANGED <<aggVars, i2cVars, envVars>>

SpecRelay == InitRelay /\ [][Relay]_vars

\* ------------------------------------------------------------------------
\* Claims about the aggregation cycle (SpecAgg)
\* ------------------------------------------------------------------------

\* An aggregation cycle has completed and none is in progress: input_state
\* is the cycle's result and cycle holds what it read.
AfterCycle == upd_pc = "idle" /\ cycles > 0

FlagGroups == {"numpad", "keypad", "auxiliary"}

\* Flag f of group g in an extension's reply, FALSE when the extension is
\* not enabled.
ReplyFlag(reply, g, f) == reply.some /\ reply.value[g][f]

\* C1 (as claimed): after an aggregation cycle every numeric, alphabetic and
\* symbol flag of input_state is true iff it is true in the local controls,
\* in extension A's reply (when enabled) or in extension B's reply (when
\* enabled).
C1_FlagsAreOrOfSources ==
  AfterCycle =>
    \A g \in FlagGroups : \A f \in DOMAIN input_state[g] :
      input_state[g][f] <=>
        (cycle.local[g][f] \/ ReplyFlag(cycle.a, g, f) \/ ReplyFlag(cycle.b, g, f))

\* C2: whenever extension B is present in a cycle, the result's analog
\* channels 3, 4, 5 are B's channels 0, 1, 2 and the result's second
\* other-payload is B's first; B's own channels 3-5 and second other-payload
\* are dropped.
C2_ExtensionBShifted ==
  (AfterCycle /\ cycle.b.some) =>
    /\ input_state.analog.a3 = cycle.b.value.analog.a0
    /\ input_state.analog.a4 = cycle.b.value.analog.a1
    /\ input_state.analog.a5 = cycle.b.value.analog.a2
    /\ input_state.other_input_two = cycle.b.value.other_input_one

\* C2 witness: B replied channels [10,20,30,40,50,60] and the result's
\* channels 3-5 are [10,20,30].
C2_Witness ==
  /\ AfterCycle
  /\ cycle.b.some
  /\ cycle.b.value.analog = [a0 |-> 10, a1 |-> 20, a2 |-> 30, a3 |-> 40,
                             a4 |-> 50, a5 |-> 60]
  /\ cycle.b.value.other_input_two # cycle.b.value.other_input_one
  /\ <<input_state.analog.a3, input_state.analog.a4, input_state.analog.a5>>
       = <<10, 20, 30>>

\* The letter flags the local controls select for the pins that read high:
\* exactly one candidate of each high multi-tap button, none of the others.
OneCandidatePerHighButton(keypad, high) ==
  \A b \in MultiTap :
    LET ls == Letters(b)
    IN  Cardinality({i \in 1..Len(ls) : keypad[ls[i]]})
          = IF b \in high THEN 1 ELSE 0

\* C3: a cycle run with neither extension enabled yields exactly the local
\* controls' flags (digits and plain keys as the pins read, one candidate
\* letter per asserted multi-tap button, no symbol flag), all six analog
\* channels zero and both other-payloads zero.
C3_NoExtensions ==
  (AfterCycle /\ ~cycle.a.some /\ ~cycle.b.some) =>
    /\ input_state.numpad = cycle.local.numpad
    /\ input_state.keypad = cycle.local.keypad
    /\ input_state.auxiliary = cycle.local.auxiliary
    /\ input_state.numpad =
         [zero |-> "b0" \in cycle.high, one |-> "b1" \in cycle.high,
          two |-> "b2" \in cycle.high, three |-> "b3" \in cycle.high,
          four |-> "b4" \in cycle.high, five |-> "b5" \in cycle.high,
          six |-> "b6" \in cycle.high, seven |-> "b7" \in cycle.high,
          eight |-> "b8" \in cycle.high, nine |-> "b9" \in cycle.high]
    /\ input_state.keypad.shift = ("switch" \in cycle.high)
    /\ input_state.keypad.enter = ("bfront" \in cycle.high)
    /\ input_state.keypad.backspace = ("bback" \in cycle.high)
    /\ OneCandidatePerHighButton(input_state.keypad, cycle.high)
    /\ input_state.auxiliary = Auxiliary_default
    /\ input_state.analog = AnalogInputs_default
    /\ input_state.other_input_one = Zeroes(24)
    /\ input_state.other_input_two = Zeroes(24)

\* C3 witness: no extension, b2 read high for the second time in the window
\* (the multi-tap selection has moved on to candidate b).
C3_Witness ==
  /\ AfterCycle
  /\ ~cycle.a.some /\ ~cycle.b.some
  /\ "b2" \in cycle.high
  /\ last_click["b2"] = 1
  /\ input_state.keypad.b

\* What the replies alone determine: channels 0-2 and other-payload A come
\* from extension A (zero without it); channels 3-5 and other-payload B come
\* from extension B's channels 0-2 and first other-payload when B is present,
\* and otherwise from extension A's own (zero without it).
ReplyOr(reply, default) == IF reply.some THEN reply.value ELSE default

ExpectedAnalog(a, b) ==
  LET ea == ReplyOr(a, Input_default).analog
  IN  IF b.some
      THEN [a0 |-> ea.a0, a1 |-> ea.a1, a2 |-> ea.a2,
            a3 |-> b.value.analog.a0, a4 |-> b.value.analog.a1,
            a5 |-> b.value.analog.a2]
      ELSE ea

\* C4: the analog channels and other-payloads of a cycle's result are a
\* function of the extension replies alone, whatever the local controls
\* read; channels 0-2 and other-payload A are extension A's (zero without
\* it), also when extension B is present.
C4_AnalogFromRepliesOnly ==
  AfterCycle =>
    /\ input_state.analog = ExpectedAnalog(cycle.a, cycle.b)
    /\ input_state.other_input_one = ReplyOr(cycle.a, Input_default).other_input_one
    /\ input_state.other_input_two =
         IF cycle.b.some THEN cycle.b.value.other_input_one
         ELSE ReplyOr(cycle.a, Input_default).other_input_two

\* C4 witness: both extensions replied with different states while local
\* controls were asserted, and channel 0 is still extension A's.
C4_Witness ==
  /\ AfterCycle
  /\ cycle.a.some /\ cycle.b.some
  /\ cycle.a.value.analog.a0 # cycle.b.value.analog.a0
  /\ cycle.high # {}
  /\ input_state.analog.a0 = cycle.a.value.analog.a0
  /\ input_state.other_input_one = cycle.a.value.other_input_one

\* ------------------------------------------------------------------------
\* Claims about the responder under preemption (SpecSys)
\* ------------------------------------------------------------------------

\* The requests answered from input_state.
StateRequests ==
  {"FullInput", "Numpad", "Keypad", "Auxiliary", "Analog", "OtherOne",
   "OtherTwo"}

\* C5: whenever i2c_interrupt answers a transfer read from input_state, the
\* bytes it hands to the bus are the packing (of the requested view) of a
\* state that an aggregation cycle wrote in full, or of the default state
\* init left; never of a state a cycle has written only in part.
C5_ResponseOfProducedState ==
  (last.type = "Read" /\ last.instruction.some
     /\ last.instruction.value \in StateRequests)
  => \E s \in produced :
       last.wrote = OnRead(last.instruction, s, ext1_decode_instructions,
                           ext2_decode_instructions, last.address)

\* C5 witness: i2c_interrupt has preempted update_inputs between the
\* computation of a new result and the lock, and answered a FullInput read
\* with the 71 bytes of the state the previous cycle wrote.
C5_Witness ==
  /\ i2c_pc = "loop"
  /\ upd_pc = "lock"
  /\ cycles > 0
  /\ next_input # input_state
  /\ input_state # Input_default
  /\ last.type = "Read"
  /\ last.instruction = Some("FullInput")
  /\ last.wrote = Input_pack(input_state, Zeroes(71)).buffer

\* ------------------------------------------------------------------------
\* Claims about the responder's protocol (SpecResp)
\* ------------------------------------------------------------------------

\* C6: after Start with instruction byte 0, the k-th transfer read (k up to
\* 71) supplies byte k of the 71-byte packing of input_state: the bytes the
\* handler hands to the bus at that read begin with that byte.
C6_EachReadSuppliesNextByte ==
  (last.type = "Read" /\ last.instruction = Some("FullInput")
     /\ reads \in 1..71)
  => /\ last.wrote # <<>>
     /\ last.wrote[1] = Input_pack(input_state, Zeroes(71)).buffer[reads]

\* The host's events have all been taken, or the device has halted.
Quiescent ==
  \/ i2c_pc = "panicked"
  \/ i2c_pc = "idle" /\ ~bus.some

\* C7: once the host has sent Start with instruction byte 9, Write(b) and
\* Stop and the device has nothing left to handle, I2C_ADDRESS is b and the
\* I2C block answers under b.
C7_SetAddressTakesEffect ==
  (set_address_trace.stage = 3 /\ Quiescent)
  => /\ I2C_ADDRESS = set_address_trace.byte
     /\ peripheral_address = set_address_trace.byte

\* C8: a Stop leaves no request pending whatever was pending before; a
\* transfer read matched after a Stop with no Start or Restart in between
\* hands no bytes to the bus, and a transfer write matched there leaves
\* I2C_ADDRESS as it was.
C8_StopClearsPending ==
  /\ last.type = "Stop" => instruction = None
  /\ (last.type = "Read" /\ last.after_stop) => last.wrote = <<>>
  /\ (last.type = "Write" /\ last.after_stop) => I2C_ADDRESS = last.address

\* C8 witness: within one transaction the address was set, a Stop followed,
\* and the transfer write matched after the Stop left the address alone.
C8_Witness ==
  /\ last.type = "Write"
  /\ last.after_stop
  /\ last.address # 0
  /\ I2C_ADDRESS = last.address
  /\ instruction = None

\* The handler is about to match the event the I2C block holds.
Matching == i2c_pc = "loop" /\ program_i2c.some /\ bus.some

\* C9: I2C_ADDRESS and the address the I2C block answers to change in one
\* kind of step only, the match of a transfer write while SetAddress is
\* pending, and become the byte written; every other step (Start, Restart,
\* transfer read, Stop, a transfer write under another or no pending
\* request, and every step outside the match) leaves both unchanged. A Start
\* or Restart makes SetAddress pending exactly when its instruction byte is
\* outside 0..8, and of all 256 bytes those are the ones From<u8> maps to
\* SetAddress.
C9_IdentityFrame ==
  /\ [][IF Matching /\ bus.value.type = "Write"
            /\ instruction = Some("SetAddress")
          THEN /\ I2C_ADDRESS' = bus.value.byte
               /\ peripheral_address' = bus.value.byte
          ELSE UNCHANGED <<I2C_ADDRESS, peripheral_address>>]_vars
  /\ [][(Matching /\ bus.value.type \in {"Start", "Restart"})
          => (instruction' = Some("SetAddress")
                <=> bus.value.byte \notin 0..8)]_vars
  /\ [](\A k \in 0..255 :
          InputRequest_from(k) = "SetAddress" <=> k \notin 0..8)

\* C9 witness: a transfer write was matched with SetAddress pending and the
\* address is now the byte written, 66, which it was not before.
C9_Witness ==
  /\ last.type = "Write"
  /\ last.instruction = Some("SetAddress")
  /\ last.address # 66
  /\ I2C_ADDRESS = 66
  /\ peripheral_address = 66

\* ------------------------------------------------------------------------
\* Claims about the codec (SpecCodec)
\* ------------------------------------------------------------------------

\* C10: for a state and for each of its four views, packing the value into a
\* buffer of the view's size (71, 2, 4, 4, 12 bytes) and unpacking that
\* buffer both succeed, and the value unpacked is the value packed.
C10_UnpackOfPackIsIdentity ==
  (codec_pc = "unpacked" /\ Len(codec_buffer) = ViewSize(codec_view))
  => /\ ~codec_packed.err
     /\ ~codec_result.err
     /\ codec_result.value = codec_value

\* C10 witness: a whole state with every part non-default went through a
\* 71-byte buffer that started filled with 0xFF and came back.
C10_Witness ==
  /\ codec_pc = "unpacked"
  /\ codec_view = "Input"
  /\ codec_value = SampleInputOne
  /\ Len(codec_buffer) = 71
  /\ codec_buffer[71] = 255
  /\ codec_result = UnpackOk(SampleInputOne)

\* C12: with a buffer shorter than the view's size (2, 4, 4, 12, 71) pack
\* returns InvalidBufferSize and the buffer is byte for byte what it was, and
\* unpack of such a buffer returns InvalidBufferSize.
C12_ShortBufferIsRejected ==
  Len(codec_before) < ViewSize(codec_view)
  => /\ codec_pc \in {"packed", "unpacked"}
          => (codec_packed.err /\ codec_buffer = codec_before)
     /\ codec_pc = "unpacked" => codec_result.err

\* C12 witness: a whole state with every part non-default was packed into
\* 70 bytes of 0xFF, which were then unpacked; both calls failed.
C12_Witness ==
  /\ codec_pc = "unpacked"
  /\ codec_view = "Input"
  /\ codec_value = SampleInputOne
  /\ codec_before = Filled(70, 255)
  /\ codec_buffer = Filled(70, 255)
  /\ codec_packed.err
  /\ codec_result.err

\* C13: a successful pack assigns every one of the view's bytes (71, 2, 4,
\* 4, 12), so that they are what packing the same value into a zeroed buffer
\* gives whatever the buffer held before, and leaves the bytes past them as
\* they were.
C13_PackAssignsDeclaredBytes ==
  (codec_pc = "packed" /\ ~codec_packed.err)
  => LET n == ViewSize(codec_view)
     IN  /\ SubSeq(codec_buffer, 1, n)
              = ViewPack(codec_view, codec_value, Zeroes(n)).buffer
         /\ \A i \in (n + 1)..Len(codec_buffer) :
              codec_buffer[i] = codec_before[i]

\* The order in which each pack shifts the flags in, and the channels.
NumpadOrder ==
  <<"zero", "one", "two", "three", "four", "five", "six", "seven", "eight",
    "nine">>

KeypadOrder ==
  <<"shift", "a", "b", "c", "d", "e", "f", "g", "h", "i", "j", "k", "l", "m",
    "n", "o", "p", "q", "r", "s", "t", "u", "v", "w", "x", "y", "z", "enter",
    "backspace">>

AuxiliaryOrder ==
  <<"exclamation", "at", "hash", "dollar", "percent", "caret", "and", "star",
    "left_paren", "right_paren", "minus", "underscore", "plus", "equal",
    "backtick", "tilde", "left_square", "right_square", "left_curly",
    "right_curly", "backslash", "pipe", "semicolon", "colon", "single_quote",
    "double_quote", "comma", "period", "less_than", "greater_than",
    "forwardslash", "question">>

AnalogOrder == <<"a0", "a1", "a2", "a3", "a4", "a5">>

\* The k-th flag of a group that starts at byte `first` (counted from 0) is
\* the bit of that rank, the most significant bit first.
FlagAt(buffer, first, k) ==
  TestBit(buffer[first + 1 + ((k - 1) \div 8)], 7 - ((k - 1) % 8))

\* C14: the 71-byte packing has the numeric flags in bytes 0-1, the
\* alphabetic flags in bytes 2-5, the symbol flags in bytes 6-9, each group
\* most significant bit first from bit 7 of its first byte; the six analog
\* channels low byte first in bytes 10-21; other-payload A in bytes 22-45 and
\* other-payload B in bytes 46-69. The bytes 0x34, 0x12 unpack as the analog
\* value 0x1234.
C14_FullStateLayout ==
  /\ (codec_pc = "packed" /\ codec_view = "Input" /\ ~codec_packed.err)
     => /\ \A k \in 1..10 :
             FlagAt(codec_buffer, 0, k) = codec_value.numpad[NumpadOrder[k]]
        /\ \A k \in 1..29 :
             FlagAt(codec_buffer, 2, k) = codec_value.keypad[KeypadOrder[k]]
        /\ \A k \in 1..32 :
             FlagAt(codec_buffer, 6, k)
               = codec_value.auxiliary[AuxiliaryOrder[k]]
        /\ \A c \in 1..6 :
             codec_buffer[9 + 2 * c] + 256 * codec_buffer[10 + 2 * c]
               = codec_value.analog[AnalogOrder[c]]
        /\ SubSeq(codec_buffer, 23, 46) = codec_value.other_input_one
        /\ SubSeq(codec_buffer, 47, 70) = codec_value.other_input_two
  /\ AnalogInputs_unpack(<<52, 18>> \o Zeroes(10)).value.a0 = 4660

\* C14 witness: a state whose first analog channel is 0x1234 and whose
\* numeric flags are one and eight was packed: byte 0 is 0x40, byte 1 0x80,
\* bytes 10 and 11 are 0x34, 0x12.
C14_Witness ==
  /\ codec_pc = "packed"
  /\ codec_view = "Input"
  /\ ~codec_packed.err
  /\ codec_value.numpad = SampleInputOne.numpad
  /\ codec_value.analog = SampleInputTwo.analog
  /\ codec_value.other_input_one = SampleInputOne.other_input_one
  /\ codec_buffer[1] = 64
  /\ codec_buffer[2] = 128
  /\ codec_buffer[11] = 52
  /\ codec_buffer[12] = 18
  /\ codec_buffer[23] = 1

\* ------------------------------------------------------------------------
\* Claims about unpack followed by pack (SpecRecode)
\* ------------------------------------------------------------------------

\* C11 as stated: for every buffer of a view's size, unpacking it and
\* packing the value into a zeroed buffer of that size gives the buffer back
\* byte for byte.
C11_RepackReproducesBuffer ==
  codec_pc = "repacked" => codec_buffer = codec_before

\* The bits no field is packed into are zero: the low six bits of the second
\* numpad byte, the low three bits of the fourth keypad byte and, of the 71
\* bytes, the last one.
SpareBitsZero(view, buffer) ==
  CASE view = "Numpad" -> buffer[2] % 64 = 0
    [] view = "Keypad" -> buffer[4] % 8 = 0
    [] view = "Input" ->
         buffer[2] % 64 = 0 /\ buffer[6] % 8 = 0 /\ buffer[71] = 0
    [] OTHER -> TRUE

\* C11 amended: for every buffer of a view's size whose spare bits are
\* zero, unpacking it and packing the value into a zeroed buffer of that
\* size gives the buffer back byte for byte.
C11_RepackReproducesCanonicalBuffer ==
  (codec_pc = "repacked" /\ SpareBitsZero(codec_view, codec_before))
  => /\ ~codec_packed.err
     /\ codec_buffer = codec_before

\* C11 witness: a 71-byte buffer with flags, analog channels and payloads
\* set and its spare bits zero was unpacked and packed again.
C11_Witness ==
  /\ codec_pc = "repacked"
  /\ codec_view = "Input"
  /\ codec_before = Input_pack(SampleInputTwo, Zeroes(71)).buffer
  /\ codec_buffer = codec_before
  /\ codec_value = SampleInputTwo

\* ------------------------------------------------------------------------
\* Claims about the tag codecs (SpecTags)
\* ------------------------------------------------------------------------

\* Sum of the sizes of the first n slots.
RECURSIVE SizeSum(_, _)
SizeSum(data_sizes, n) ==
  IF n = 0 THEN 0 ELSE SizeSum(data_sizes, n - 1) + SizeOf(data_sizes[n])

\* The slots up to and including the one at which the cumulative length
\* reaches 24: those whose preceding slots sum to less than 24.
DefinedSlots(data_sizes) ==
  {i \in 1..24 : SizeSum(data_sizes, i - 1) < 24}

\* C15: for every array of 24 size tags, unpack of its packing returns the
\* tags up to and including the slot at which the cumulative length reaches
\* 24, and One in every later slot.
C15_SizeTagsRoundTrip ==
  (codec_pc = "unpacked" /\ codec_view = "DataSizes") =>
    /\ Returned(codec_result)
    /\ \A i \in 1..24 :
         codec_result.value[i] =
           IF i \in DefinedSlots(codec_value) THEN codec_value[i] ELSE "One"

\* C16: unpack of the 248-byte packing of decode instructions returns the
\* module id, all 24 names, and the size tag and type tag of every slot the
\* sizes define.
C16_DecodeInstructionsRoundTrip ==
  (codec_pc = "unpacked" /\ codec_view = "DecodeInstructions") =>
    /\ Returned(codec_result)
    /\ codec_result.value.module_id = codec_value.module_id
    /\ codec_result.value.fields = codec_value.fields
    /\ \A i \in DefinedSlots(codec_value.data_sizes) :
         /\ codec_result.value.data_sizes[i] = codec_value.data_sizes[i]
         /\ codec_result.value.data_types[i] = codec_value.data_types[i]

\* C17: unpack of the size tags and of the type tags returns for every three
\* bytes, the all-zero bytes and a codeword cut at bit 24 included, and
\* writes no slot past index 23.
C17_TagUnpackReturns ==
  (codec_pc = "parsed" /\ codec_view \in {"DataSizes", "DataTypes"}) =>
    /\ ~Diverged(codec_result)
    /\ ~Panicked(codec_result)

\* ------------------------------------------------------------------------
\* Claims about decode (SpecDecode)
\* ------------------------------------------------------------------------

\* The slot decode was asked for, where its bytes start and its tags.
SlotOffset == SizeSum(codec_value.decode_instructions.data_sizes,
                      codec_value.idx)
SlotSize == codec_value.decode_instructions.data_sizes[codec_value.idx + 1]
SlotType == codec_value.decode_instructions.data_types[codec_value.idx + 1]

\* decode has returned for an index in 0..23.
DecodedSlot == codec_pc = "decoded" /\ codec_value.idx \in 0..23

\* C18: decode of a slot in 0..23 whose offset plus size exceeds 24 returns
\* OutOfBounds, whatever its type tag.
C18_PastTheEndIsOutOfBounds ==
  (DecodedSlot /\ SlotOffset + SizeOf(SlotSize) > 24) =>
    codec_result = DecodeErr("OutOfBounds")

C18_Witness ==
  /\ DecodedSlot
  /\ SlotOffset + SizeOf(SlotSize) > 24
  /\ SlotSize = "Two"
  /\ SlotType = "Floating"
  /\ codec_result = DecodeErr("OutOfBounds")

\* The variant of each supported pair.
VariantOf ==
  [Unsigned |-> [One |-> "U8", Two |-> "U16", Four |-> "U32", Eight |-> "U64"],
   Signed |-> [One |-> "I8", Two |-> "I16", Four |-> "I32", Eight |-> "I64"],
   Floating |-> [Four |-> "F32", Eight |-> "F64"]]

\* Byte k (from 0) of the slot.
SlotByte(k) == codec_buffer[SlotOffset + k + 1]

\* The little-endian value of the slot: a number for one and two bytes
\* (negative from 0x80 and 0x8000 up when signed), the bytes from the most
\* significant down for four and eight.
SlotValue ==
  LET low == IF SlotSize = "One" THEN SlotByte(0)
             ELSE SlotByte(0) + 256 * SlotByte(1)
      half == IF SlotSize = "One" THEN 128 ELSE 32768
  IN  IF SlotSize \in {"One", "Two"}
        THEN IF SlotType = "Signed" /\ low >= half THEN low - 2 * half
             ELSE low
      ELSE [j \in 1..SizeOf(SlotSize) |-> SlotByte(SizeOf(SlotSize) - j)]

\* C19: decode of an in-bounds slot returns UnknownDataType exactly for
\* (One, Floating) and (Two, Floating), and otherwise the variant of the
\* slot's width and type with the little-endian value found at the sum of
\* the preceding sizes and the slot's name.
C19_InBoundsSlotDecodes ==
  (DecodedSlot /\ SlotOffset + SizeOf(SlotSize) <= 24) =>
    IF SlotSize \in {"One", "Two"} /\ SlotType = "Floating"
      THEN codec_result = DecodeErr("UnknownDataType")
    ELSE codec_result =
           DecodeOk([variant |-> VariantOf[SlotType][SlotSize],
                     value |-> SlotValue,
                     name |-> codec_value.decode_instructions
                                .fields[codec_value.idx + 1]])

C19_Witness ==
  /\ DecodedSlot
  /\ SlotOffset > 0
  /\ ~codec_result.err
  /\ codec_result.value.variant = "I16"
  /\ codec_result.value.value < 0
  /\ codec_result.value.name = TestFields[2]

\* ------------------------------------------------------------------------
\* Claims about the union of two keypads (SpecBitor)
\* ------------------------------------------------------------------------

\* C20: every flag of `a | b` is the OR of the flags of that name in a and
\* in b.
C20_KeypadOrIsFieldwise ==
  codec_pc = "ored" =>
    \A f \in KeypadFields :
      codec_result.value[f] = (codec_value.self[f] \/ codec_value.rhs[f])

\* ------------------------------------------------------------------------
\* Claims about the union of two numpads or auxiliary groups (SpecMerge)
\* ------------------------------------------------------------------------

\* C35: for Numpad and for Auxiliary values a and b, every flag of `a | b`
\* is the OR of the flags of that name in a and in b; so `a | b` equals
\* `b | a` and `a | a` equals a.
C35_MergeIsFieldwiseOr ==
  codec_pc = "ored" =>
    LET fields == IF codec_view = "Numpad" THEN NumpadFields
                  ELSE AuxiliaryFields
        or == codec_result.value
    IN  /\ DOMAIN or.ab = fields
        /\ \A f \in fields :
             or.ab[f] = (codec_value.self[f] \/ codec_value.rhs[f])
        /\ or.ab = or.ba
        /\ or.aa = codec_value.self

\* A numpad with one key down merged with one whose only key is nine, and
\* an auxiliary group merged with one holding a different single flag.
C35_Witness ==
  /\ codec_pc = "ored"
  /\ \/ /\ codec_view = "Numpad"
        /\ codec_value.self = [f \in NumpadFields |-> f = "zero"]
        /\ codec_value.rhs = [f \in NumpadFields |-> f = "nine"]
        /\ codec_result.value.ab = [f \in NumpadFields |-> f \in {"zero", "nine"}]
     \/ /\ codec_view = "Auxiliary"
        /\ codec_value.self = [f \in AuxiliaryFields |-> f = "question"]
        /\ codec_value.rhs = [f \in AuxiliaryFields |-> f = "at"]
        /\ codec_result.value.ab = [f \in AuxiliaryFields |-> f \in {"question", "at"}]

\* ------------------------------------------------------------------------
\* Claims about the driver's address (SpecDriver)
\* ------------------------------------------------------------------------

\* C36: set_address(n) writes [SetAddress, n] to the address stored before
\* the call; when the write succeeds it returns Ok and the stored address
\* is n; when the write fails it returns the bus's error and the stored
\* address is what it was; so after any calls the stored address is the n
\* of the last call whose write succeeded, or the address the driver was
\* built with.
C36_AddressFollowsSuccessfulWrite ==
  codec_pc = "called" =>
    LET v == codec_value
    IN  /\ v.wrote = [address |-> v.old,
                      bytes |-> <<InputRequest_SetAddress, v.new_address>>]
        /\ ~v.written.err => /\ codec_result = [err |-> FALSE]
                             /\ v.address = v.new_address
        /\ v.written.err => /\ codec_result = v.written
                            /\ v.address = v.old
        /\ v.address = v.good

\* A call that failed after an earlier one had succeeded: the address is
\* the earlier call's, neither the failed call's nor the first one.
C36_Witness ==
  /\ codec_pc = "called"
  /\ codec_value.calls >= 2
  /\ codec_value.written.err
  /\ codec_value.address # codec_value.new_address
  /\ codec_value.address # codec_value.first
  /\ codec_result.err

\* ------------------------------------------------------------------------
\* Claims about the responder's requests and its handler (SpecResp)
\* ------------------------------------------------------------------------

\* The view request code k selects, of the current state: the packing of a
\* flag group or of the analog bank, a cached decode block, an other-payload.
SelectedView(k) ==
  CASE k = 1 -> Numpad_pack(input_state.numpad, Zeroes(2)).buffer
    [] k = 2 -> Keypad_pack(input_state.keypad, Zeroes(4)).buffer
    [] k = 3 -> Auxiliary_pack(input_state.auxiliary, Zeroes(4)).buffer
    [] k = 4 -> AnalogInputs_pack(input_state.analog, Zeroes(12)).buffer
    [] k = 5 -> ext1_decode_instructions
    [] k = 6 -> input_state.other_input_one
    [] k = 7 -> ext2_decode_instructions
    [] k = 8 -> input_state.other_input_two

SelectedSize(k) ==
  CASE k = 1 -> 2 [] k \in {2, 3} -> 4 [] k = 4 -> 12
    [] k \in {5, 7} -> 248 [] k \in {6, 8} -> 24

C26_HandlerNeverPanics ==
  /\ i2c_pc # "panicked"
  /\ i2c_pc = "idle" => program_i2c.some

\* C27: the request a Start or Restart selected stays pending until the
\* next Stop however the events are split across invocations: whenever the
\* handler is about to take a transfer read or write from the bus and the
\* last event it handled was a Start or Restart, the request that event
\* selected is pending.
C27_PendingRequestPersists ==
  (i2c_pc = "loop" /\ bus.some /\ bus.value.type \in {"Read", "Write"}
     /\ last.type \in {"Start", "Restart"})
  => instruction.some

\* ------------------------------------------------------------------------
\* Claims about an extension that does not answer (SpecPoll)
\* ------------------------------------------------------------------------

\* C21: when the transaction polling an extension fails, update_inputs does
\* not panic; the cycle completes and the state it publishes is the one it
\* would publish with that extension absent.
C21_FailedPollIsAbsence ==
  /\ upd_pc # "panicked"
  /\ (upd_pc = "idle" /\ absent.some /\ absent.cycle = cycles)
       => input_state = absent.value

\* ------------------------------------------------------------------------
\* Claims about check_three_input and check_four_input (SpecCheck)
\* ------------------------------------------------------------------------

\* The tuple of n flags in which only candidate k is true.
Candidate(n, k) == [i \in 1..n |-> i = k + 1]

C24_ShortBufferRejected ==
  /\ (codec_pc \in {"packed", "unpacked"} /\ Len(codec_before) < 248)
       => codec_packed.err /\ codec_buffer = codec_before
  /\ (codec_pc \in {"unpacked", "parsed"} /\ Len(codec_buffer) < 248)
       => codec_result = UnpackErr

\* ------------------------------------------------------------------------
\* Claims about the extension board's responder (SpecRelay)
\* ------------------------------------------------------------------------

\* The view of `input` request code k stands for, packed.
RelayView(k, input) ==
  CASE k = 0 -> Input_pack(input, Zeroes(71)).buffer
    [] k = 1 -> Numpad_pack(input.numpad, Zeroes(2)).buffer
    [] k = 2 -> Keypad_pack(input.keypad, Zeroes(4)).buffer
    [] k = 3 -> Auxiliary_pack(input.auxiliary, Zeroes(4)).buffer
    [] k = 4 -> AnalogInputs_pack(input.analog, Zeroes(12)).buffer

\* C29: relay_inputs never panics whatever byte it receives, and for the
\* request codes 0 to 4 it writes the packing of the whole state, of the
\* numeric, alphabetic and symbol flags and of the analog bank: 71, 2, 4, 4
\* and 12 bytes.
C29_RelayAnswersView ==
  codec_pc = "relayed"
  => /\ ~Panicked(codec_result)
     /\ codec_value.byte \in 0..4
          => codec_result.wrote = RelayView(codec_value.byte, codec_value.input)

\* ------------------------------------------------------------------------
\* Claims about connecting and disconnecting extensions (SpecPower)
\* ------------------------------------------------------------------------

\* C22: after every run of power_interrupt the enabled flag of either
\* extension equals the level the run read from that extension's enable
\* line.
C22_EnabledFollowsLine ==
  power_pc.pc = "ran"
  => /\ ext1_enabled = power_pc.ext1
     /\ ext2_enabled = power_pc.ext2

\* ------------------------------------------------------------------------
\* Claims about presses and releases of the multi-tap buttons (SpecTap)
\* ------------------------------------------------------------------------

\* The flags of button b's letters in the published state.
Selected(b) == [i \in 1..Len(Letters(b)) |-> input_state.keypad[Letters(b)[i]]]

\* C30: for each of b2..b9, after a tick that is the first asserted one of
\* a press: if the button's release was at least 500 ms earlier, candidate 0
\* is selected and the button's counter is 0; if it was less than 500 ms
\* earlier, the counter is one higher than before and candidate (counter
\* mod N) is selected. The button's timestamp is the instant of the tick
\* after an asserted tick and after the first deasserted tick that follows
\* an asserted one, and unchanged after any other tick.
C30_PressAfterRelease ==
  cycles > 0
  => \A b \in MultiTap :
       LET h == history[b]
           n == Len(Letters(b))
           press == h.asserted /\ ~h.was /\ h.released.some
       IN  /\ (press /\ now - h.released.value >= SEQUENCE_DELAY_MS)
                => /\ Selected(b) = Candidate(n, 0)
                   /\ last_click[b] = 0
           /\ (press /\ now - h.released.value < SEQUENCE_DELAY_MS)
                => /\ last_click[b] = h.click + 1
                   /\ Selected(b) = Candidate(n, last_click[b] % n)
           /\ last_time[b] = IF h.asserted \/ h.was THEN Some(now) ELSE h.time

\* C34: whenever an extension is marked enabled, the decode block cached
\* for it, which requests 5 and 7 are answered with, is a block that was
\* fetched from that extension; also for an extension that init found
\* connected.
C34_EnabledBlockIsFetched ==
  /\ ext1_enabled => ext1_decode_instructions = SampleDecodeOne
  /\ ext2_enabled => ext2_decode_instructions = SampleDecodeTwo

\* ------------------------------------------------------------------------
\* Claims about the periodic task (SpecLive)
\* ------------------------------------------------------------------------

\* C28: after init, with every ready task and asserted interrupt served,
\* the periodic task runs aggregation cycles one after the other, each
\* replacing input_state: the cycles counted reach every number up to
\* MaxCycles.
C28_CyclesKeepRunning == \A n \in 1..MaxCycles : <>(cycles >= n)

\* C31: every multi-tap button has a counter and a timestamp of its own.
\* After a tick, the counter of a button that read deasserted is what it was
\* before the tick; the counter and the candidate of a button that read
\* asserted are what check_*_input gives for that button's own timestamp and
\* counter; and the button's timestamp is the instant of the tick or what it
\* was, whatever the other buttons read.
C31_OwnCounterAndTimestamp ==
  cycles > 0
  => \A b \in MultiTap :
       LET h == history[b]
           own == CheckInput(b, now, h.time, h.click)
       IN  /\ ~h.asserted => last_click[b] = h.click
           /\ h.asserted => /\ last_click[b] = own.last_click
                            /\ Selected(b) = own.sel
                            /\ last_time[b] = Some(now)
           /\ ~h.asserted => last_time[b] \in {h.time, Some(now)}

\* C33: for each of b2..b9, the first tick after start-up at which the
\* button reads asserted selects candidate 0, however many ticks after
\* start-up it comes and however short the time since then.
C33_FirstPressSelectsFirst ==
  cycles > 0
  => \A b \in MultiTap :
       (history[b].asserted /\ ~history[b].was /\ ~history[b].released.some)
       => Selected(b) = Candidate(Len(Letters(b)), 0)

\* ------------------------------------------------------------------------
\* Claims about a held multi-tap button (SpecHold)
\* ------------------------------------------------------------------------

\* C32: while a button is asserted at tick after tick, one period apart,
\* no tick panics and the tick that comes k ticks after the first selects
\* candidate (k mod N), for every k up to MaxHeld, which is past 255.
C32_HeldButtonCycles ==
  /\ codec_pc # "panicked"
  /\ codec_value.ticks > 0
       => LET n == IF codec_view = "check_three_input" THEN 3 ELSE 4
          IN  codec_result.sel = Candidate(n, (codec_value.ticks - 1) % n)

====
